---- MODULE Spec2Model ----
(***************************************************************************)
(* Model of the configuration/event core of pyprogram_template:            *)
(*   - PropertyDict (app/core/_property.py): nested mapping, merge/getprop *)
(*   - EventBus (app/handler/_event_handler.py): subscribe/emit/...        *)
(*   - ConfigEnvironment, ImportResolver and the on_register_resolver      *)
(*     sweep (app/handler/_configs_handler.py)                             *)
(*                                                                         *)
(* Strings are sequences of symbols.  A symbol is a delimiter ("." or      *)
(* ":"), a blank (" ") or an atom standing for a run of other characters   *)
(* ("config", "extra.yml"), so split/strip/"in" work on the sequence as    *)
(* the Python string methods work on the characters.                       *)
(***************************************************************************)
EXTENDS Integers, Sequences, FiniteSets, TLC

(***************************************************************************)
(* Strings                                                                 *)
(***************************************************************************)
DOT == "."
COLON == ":"
BLANK == " "

\* str.strip(): drop leading and trailing blanks
RECURSIVE LStrip(_)
LStrip(s) == IF s # <<>> /\ Head(s) = BLANK THEN LStrip(Tail(s)) ELSE s

RECURSIVE RStrip(_)
RStrip(s) ==
    IF s # <<>> /\ s[Len(s)] = BLANK THEN RStrip(SubSeq(s, 1, Len(s) - 1)) ELSE s

Strip(s) == RStrip(LStrip(s))

\* `delim in s`
Contains(s, delim) == \E i \in 1..Len(s) : s[i] = delim

\* index of the first delim in s (s contains one)
FirstIndex(s, delim) ==
    CHOOSE i \in 1..Len(s) : s[i] = delim /\ \A j \in 1..(i - 1) : s[j] # delim

\* s.split(delim): the pieces between delimiters; always at least one piece
RECURSIVE Split(_, _)
Split(s, delim) ==
    IF ~Contains(s, delim) THEN <<s>>
    ELSE LET i == FirstIndex(s, delim)
         IN  <<SubSeq(s, 1, i - 1)>> \o Split(SubSeq(s, i + 1, Len(s)), delim)

\* s.split(delim, 1) of a string that contains delim: <<prefix, rest>>
SplitOnce(s, delim) ==
    LET i == FirstIndex(s, delim)
    IN  <<SubSeq(s, 1, i - 1), SubSeq(s, i + 1, Len(s))>>

(***************************************************************************)
(* Values of a configuration tree: None, scalars, lists of strings, dicts  *)
(***************************************************************************)
None == [t |-> "none"]
Num(i) == [t |-> "num", nv |-> i]
List(q) == [t |-> "list", lv |-> q]
Str(s) == [t |-> "str", sv |-> s]
Dict(f) == [t |-> "dict", dv |-> f]

IsDict(v) == v.t = "dict"
IsNone(v) == v.t = "none"

EmptyMap == [k \in {} |-> None]
EmptyDict == Dict(EmptyMap)

\* the dict {k: v}
One(k, v) == [x \in {k} |-> v]
\* dict union of two maps with disjoint keys
Join(f, g) == [x \in (DOMAIN f) \cup (DOMAIN g) |-> IF x \in DOMAIN f THEN f[x] ELSE g[x]]

\* the keys of a dict as a sequence
RECURSIVE KeySeq(_)
KeySeq(ks) ==
    IF ks = {} THEN <<>>
    ELSE LET k == CHOOSE x \in ks : TRUE IN <<k>> \o KeySeq(ks \ {k})

\* iter(v): what list.extend(v) appends, for the values that can be iterated
Iterable(v) == v.t \in {"list", "str", "dict"}
Items(v) ==
    CASE v.t = "list" -> v.lv
      [] v.t = "str" -> [i \in 1..Len(v.sv) |-> <<v.sv[i]>>]
      [] v.t = "dict" -> KeySeq(DOMAIN v.dv)

(***************************************************************************)
(* PropertyDict.merge: _merge(base, override) on the maps of two dicts     *)
(***************************************************************************)
NoneModes == {"ignore", "delete", "override"}
\* a merge that stores the nulls it is given
StoreNulls == "override"
\* none_mode when merge is called without one
DefaultNoneMode == "ignore"

\* dict.update(override): the incoming values stored key by key, no recursion
ShallowUpdate(base, override, none_mode) ==
    [k \in (DOMAIN base) \cup (DOMAIN override) |->
        IF k \in DOMAIN override THEN override[k] ELSE base[k]]

\* a merge that stores the incoming values key by key and drops the keys whose
\* incoming value is null
DropNulls(base, override, none_mode) ==
    LET nulls == {k \in DOMAIN override : IsNone(override[k])}
    IN  [k \in ((DOMAIN base) \cup (DOMAIN override)) \ nulls |->
            IF k \in DOMAIN override THEN override[k] ELSE base[k]]

RECURSIVE MergeMap(_, _, _)
MergeMap(base, override, none_mode) ==
    LET skipped == {k \in DOMAIN override :
                       IsNone(override[k]) /\ none_mode = "ignore"}
        popped  == {k \in DOMAIN override :
                       IsNone(override[k]) /\ none_mode = "delete"}
        written == (DOMAIN override) \ (skipped \cup popped)
    IN  [k \in ((DOMAIN base) \ popped) \cup written |->
            IF k \notin written THEN base[k]
            ELSE IF k \in DOMAIN base /\ IsDict(base[k]) /\ IsDict(override[k])
                 THEN Dict(MergeMap(base[k].dv, override[k].dv, none_mode))
                 ELSE override[k]]

(***************************************************************************)
(* PropertyDict.getprop: result is [ok |-> TRUE, val |-> v] or, when       *)
(* KeyError is raised, [ok |-> FALSE]                                      *)
(***************************************************************************)
KeyError == [ok |-> FALSE]
Ret(v) == [ok |-> TRUE, val |-> v]

\* a miss that never raises
MissQuiet(default, raise_error) == Ret(default)

Miss(default, raise_error) == IF raise_error THEN KeyError ELSE Ret(default)

\* the loop without its last line: an explicit null is handed out as found
RECURSIVE WalkRaw(_, _, _, _)
WalkRaw(current, key_args, default, raise_error) ==
    IF key_args = <<>>
    THEN Ret(current)
    ELSE IF IsDict(current) /\ Head(key_args) \in DOMAIN current.dv
         THEN WalkRaw(current.dv[Head(key_args)], Tail(key_args), default, raise_error)
         ELSE Miss(default, raise_error)

\* the loop without isinstance(current, dict): `part in current` raises
\* TypeError on a number and on None
TypeError == [ok |-> FALSE, err |-> "TypeError"]
RECURSIVE WalkUnguarded(_, _, _, _)
WalkUnguarded(current, key_args, default, raise_error) ==
    IF key_args = <<>>
    THEN Ret(IF IsNone(current) THEN default ELSE current)
    ELSE IF current.t \in {"none", "num"}
         THEN TypeError
         ELSE IF IsDict(current) /\ Head(key_args) \in DOMAIN current.dv
              THEN WalkUnguarded(current.dv[Head(key_args)], Tail(key_args),
                                 default, raise_error)
              ELSE Miss(default, raise_error)

RECURSIVE Walk(_, _, _, _)
Walk(current, key_args, default, raise_error) ==
    IF key_args = <<>>
    THEN Ret(IF IsNone(current) THEN default ELSE current)
    ELSE IF IsDict(current) /\ Head(key_args) \in DOMAIN current.dv
         THEN Walk(current.dv[Head(key_args)], Tail(key_args), default, raise_error)
         ELSE Miss(default, raise_error)

\* a getprop that skips the empty segments of the path instead of refusing it
GetPropSkipEmpty(data, key, default, raise_error, delimiter) ==
    IF ~IsDict(data) THEN Miss(default, raise_error)
    ELSE IF key = <<>> THEN Miss(default, raise_error)
    ELSE LET parts    == Split(key, delimiter)
             key_args == [i \in 1..Len(parts) |-> Strip(parts[i])]
         IN  Walk(data, SelectSeq(key_args, LAMBDA p : p # <<>>), default, raise_error)

GetProp(data, key, default, raise_error, delimiter) ==
    IF ~IsDict(data) THEN Miss(default, raise_error)
    ELSE IF key = <<>> THEN Miss(default, raise_error)
    ELSE LET parts    == Split(key, delimiter)
             key_args == [i \in 1..Len(parts) |-> Strip(parts[i])]
         IN  IF \E i \in 1..Len(key_args) : key_args[i] = <<>>
             THEN Miss(default, raise_error)
             ELSE Walk(data, key_args, default, raise_error)

CONFIG_IMPORT == <<"config", DOT, "imports">>

\* ConfigEnvironment.extract_imports
ExtractImports(data) ==
    IF ~IsDict(data) THEN List(<<>>)
    ELSE GetProp(data, CONFIG_IMPORT, List(<<>>), FALSE, DOT).val

(***************************************************************************)
(* Bounds of the model                                                     *)
(***************************************************************************)
\* the interpreter's recursion limit, counted in frames of the modelled calls
RecursionLimit == 12
\* a new top-level call is started only while the cache is at most this long
MaxCache == 2
\* subscriptions made through the public subscribe() of the bus
MaxSubs == 2
\* the paths given to getprop are at most this many characters long
MaxKeyLen == 4
MaxItems == 2

\* sys.maxsize (of a 32-bit build)
maxsize == 2147483647

(***************************************************************************)
(* Import reference strings and the resources behind them                  *)
(***************************************************************************)
P_file == <<"file">>
P_http == <<"http">>
P_x == <<"x">>
Protocols == {P_file, P_http, P_x}

I_extra == <<"file", COLON, "extra.yml">>
I_more == <<"http", COLON, "//host/more.yml">>
I_bad == <<"http", COLON, "bad.yml">>
I_x1 == <<"x", COLON, "1">>
I_x2 == <<"x", COLON, BLANK, "2", BLANK>>
I_y9 == <<"y", COLON, "9">>
I_jas == <<"just-a-string">>
I_empty == <<>>

K(a) == <<a>>
ImportsAs(v) == One(K("config"), Dict(One(K("imports"), v)))
ImportsOf(q) == ImportsAs(List(q))

\* ConfigDataLocationResolver.resolve(location): the resource a registered
\* resolver hands back for a location
Resolve(protocol, location) ==
    CASE protocol = P_file /\ location = <<"extra.yml">> -> "extra"
      [] protocol = P_http /\ location = <<"//host/more.yml">> -> "more"
      [] protocol = P_http /\ location = <<"bad.yml">> -> "bad"
      [] protocol = P_x /\ location = <<"1">> -> "one"
      [] protocol = P_x /\ location = <<"2">> -> "two"
      [] OTHER -> "absent"

\* ConfigDataResource.load() raises (HttpResource: raise_for_status)
LoadRaises(res) == res = "bad"

\* what ConfigDataResource.load() returns
Load(res) ==
    CASE res = "boot" -> Dict(Join(ImportsOf(<<I_extra>>), One(K("a"), Num(1))))
      [] res = "extra" -> Dict(Join(ImportsOf(<<I_more>>), One(K("b"), Num(2))))
      [] res = "more" -> Dict(One(K("c"), Num(3)))
      [] res = "main" -> Dict(Join(ImportsOf(<<I_more>>), One(K("c"), Num(1))))
      [] res = "lead" -> Dict(Join(ImportsOf(<<I_x1>>), One(K("d"), Num(1))))
      [] res = "one" -> Dict(Join(ImportsOf(<<I_y9>>), One(K("d"), Num(4))))
      [] res = "two" -> Dict(Join(ImportsOf(<<I_jas>>), One(K("e"), Num(5))))
      [] res = "scalar" -> Num(7)
      [] res = "nil" -> None
      [] res = "seq" -> List(<<I_x1>>)
      [] res = "imp_str" -> Dict(ImportsAs(Str(<<"x", COLON, "1">>)))
      [] res = "imp_map" -> Dict(ImportsAs(Dict(One(I_x1, Num(1)))))
      [] res = "imp_num" -> Dict(ImportsAs(Num(7)))
      [] res = "nulls" -> Dict(Join(One(K("a"), None),
                                    One(K("b"), Dict(One(K("x"), None)))))
      [] OTHER -> EmptyDict

TopResources == {"boot", "more"}
ImportLists == {<<I_x1>>, <<I_x2>>, <<I_jas>>, <<I_empty>>, <<I_bad, I_more>>}

(***************************************************************************)
(* Event classes and subscribers                                           *)
(***************************************************************************)
EventTypes == {"Event", "RegisterResolverEvent", "ChildEvent", "GrandChildEvent"}

\* the event emitted once when the application starts
ApplicationStartupEvent == "ApplicationStartupEvent"

\* the base class of an event class ("object" above Event)
Base(c) ==
    CASE c = "RegisterResolverEvent" -> "Event"
      [] c = ApplicationStartupEvent -> "Event"
      [] c = "ChildEvent" -> "Event"
      [] c = "GrandChildEvent" -> "ChildEvent"
      [] OTHER -> "object"

RECURSIVE IsSubclass(_, _)
IsSubclass(c, d) ==
    IF c = d THEN TRUE
    ELSE IF c = "object" THEN FALSE
    ELSE IsSubclass(Base(c), d)

\* seq is not a field of the class: it tells the Subscriber objects apart by
\* the order in which subscribe() created them
Subscriber(callback, event_type, condition, priority, async_, once, seq) ==
    [callback |-> callback, event_type |-> event_type, condition |-> condition,
     priority |-> priority, async_ |-> async_, once |-> once, seq |-> seq]

\* list.sort(key=lambda s: -s.priority) / sorted(...): stable, descending
InsertByPriority(sorted, x) ==
    LET k == Cardinality({i \in 1..Len(sorted) : sorted[i].priority >= x.priority})
    IN  SubSeq(sorted, 1, k) \o <<x>> \o SubSeq(sorted, k + 1, Len(sorted))

\* the list in the order it has
Unsorted(s) == s

RECURSIVE SortByPriority(_)
SortByPriority(s) ==
    IF s = <<>> THEN <<>>
    ELSE InsertByPriority(SortByPriority(SubSeq(s, 1, Len(s) - 1)), s[Len(s)])

VARIABLES
    resolvers,     \* ImportResolver.resolvers: the protocols, in insertion order
    lists,         \* the list objects that are or were ImportResolver.cached_imports
    cached,        \* which of them ImportResolver.cached_imports names now
    env,           \* ConfigEnvironment.data
    subscribers,   \* EventBus._subscribers: <<[etype, subs]>> in insertion order
    stack,         \* per thread: the frames of the calls in progress
    exc,           \* per thread: the exception being propagated, or "none"
    outcome,       \* per thread: how its last top-level call ended
    last,          \* per thread: its last top-level call
    pre,           \* resolvers, cache and env when the last top-level call began
    log,           \* resolves, merges and callback invocations since then
    instance       \* per proxy class: the object _instance names, 0 for None

vars == <<instance, resolvers, lists, cached, env, subscribers, stack, exc, outcome, last, pre, log>>

Threads == {1, 2}

\* the singleton proxies; the objects a proxy constructs are numbered 1, 2, ...
Proxies == {"ConfigEnvironmentInstance", "EventBusInstance"}
\* _environment = ConfigEnvironmentInstance() and _EM = EventBusInstance() ran
\* when the handler modules were imported
Constructed == [cls \in Proxies |-> 1]

cached_imports == lists[cached]

(***************************************************************************)
(* Frames of the calls in progress                                         *)
(***************************************************************************)
NoFrame ==
    [fn |-> "", pc |-> "", proto |-> <<>>, res |-> "", ev |-> "", cb |-> "",
     data |-> None, imps |-> None, subs |-> <<>>, rm |-> <<>>, rem |-> <<>>,
     idx |-> 0, lid |-> 0, n |-> 0]
Frame(fn, pc) == [NoFrame EXCEPT !.fn = fn, !.pc = pc]

MergeSourceFrame(res) == [Frame("merge_source", "load") EXCEPT !.res = res]
AddImportsFrame(imports) == [Frame("add_imports", "ref") EXCEPT !.imps = imports]
RegisterFrame(protocol) == [Frame("register", "set") EXCEPT !.proto = protocol]
EmitFrame(ev, protocol) == [Frame("emit", "collect") EXCEPT !.ev = ev, !.proto = protocol]
SweepFrame(protocol) == [Frame("on_register_resolver", "start") EXCEPT !.proto = protocol]
CallbackFrame(cb, ev) == [Frame("callback", "run") EXCEPT !.cb = cb, !.ev = ev]

Top(t) == stack[t][Len(stack[t])]
Running(t) == stack[t] # <<>> /\ exc[t] = "none"
At(t, fn, pc) == Running(t) /\ Top(t).fn = fn /\ Top(t).pc = pc
Idle == \A t \in Threads : stack[t] = <<>>

ReplaceTop(s, f) == [s EXCEPT ![Len(s)] = f]
DropTop(s) == SubSeq(s, 1, Len(s) - 1)

\* the top frame goes on as `caller` and calls `callee`; the call raises
\* RecursionError when the stack is as deep as the interpreter allows
Call(t, caller, callee) ==
    IF Len(stack[t]) >= RecursionLimit
    THEN /\ stack' = [stack EXCEPT ![t] = ReplaceTop(@, caller)]
         /\ exc' = [exc EXCEPT ![t] = "RecursionError"]
    ELSE /\ stack' = [stack EXCEPT ![t] = Append(ReplaceTop(@, caller), callee)]
         /\ UNCHANGED exc

Goto(t, f) == stack' = [stack EXCEPT ![t] = ReplaceTop(@, f)]

\* the top frame returns (how = "returned") or is left by an exception
Leave(t, how) ==
    /\ stack' = [stack EXCEPT ![t] = DropTop(@)]
    /\ outcome' = IF Len(stack[t]) = 1 THEN [outcome EXCEPT ![t] = how] ELSE outcome

\* list objects no frame can reach any more are dropped once every call is over
LastOut(t) == Len(stack[t]) = 1 /\ \A u \in Threads \ {t} : stack[u] = <<>>
Collect(t) ==
    IF LastOut(t) THEN lists' = <<cached_imports>> /\ cached' = 1
    ELSE UNCHANGED <<lists, cached>>

Raise(t, e) == exc' = [exc EXCEPT ![t] = e]

\* a top-level call of thread t
Begin(t, frame, call) ==
    /\ stack[t] = <<>>
    /\ Len(cached_imports) <= MaxCache
    /\ stack' = [stack EXCEPT ![t] = <<frame>>]
    /\ last' = [last EXCEPT ![t] = call]
    /\ outcome' = [outcome EXCEPT ![t] = "running"]
    /\ IF Idle
       THEN /\ pre' = [resolvers |-> resolvers, cache |-> cached_imports, env |-> env,
                    subscribers |-> subscribers]
            /\ log' = <<>>
       ELSE UNCHANGED <<pre, log>>
    /\ UNCHANGED <<instance, resolvers, lists, cached, env, subscribers, exc>>

(***************************************************************************)
(* ImportResolver.register                                                 *)
(***************************************************************************)
CallRegister(t, protocol) ==
    Begin(t, RegisterFrame(protocol), [op |-> "register", proto |-> protocol])

\* cls.resolvers[protocol] = resolver
SetResolver(rs, protocol) ==
    IF \E i \in 1..Len(rs) : rs[i] = protocol THEN rs ELSE Append(rs, protocol)

RegisterSet(t) ==
    /\ At(t, "register", "set")
    /\ resolvers' = SetResolver(resolvers, Top(t).proto)
    /\ UNCHANGED instance
    /\ Goto(t, [Top(t) EXCEPT !.pc = "emit"])
    /\ UNCHANGED <<lists, cached, env, subscribers, exc, outcome, last, pre, log>>

RegisterEmit(t) ==
    /\ At(t, "register", "emit")
    /\ Call(t, [Top(t) EXCEPT !.pc = "done"],
            EmitFrame("RegisterResolverEvent", Top(t).proto))
    /\ UNCHANGED <<instance, resolvers, lists, cached, env, subscribers, outcome, last, pre, log>>

RegisterReturn(t) ==
    /\ At(t, "register", "done")
    /\ Leave(t, "returned")
    /\ Collect(t)
    /\ UNCHANGED <<instance, resolvers, env, subscribers, exc, last, pre, log>>

(***************************************************************************)
(* ImportResolver.add_imports                                              *)
(***************************************************************************)
CallAddImports(t, imports) ==
    Begin(t, AddImportsFrame(List(imports)), [op |-> "add_imports", imps |-> imports])

\* cls.cached_imports: the list object the attribute names now
AddImportsRef(t) ==
    /\ At(t, "add_imports", "ref")
    /\ Goto(t, [Top(t) EXCEPT !.pc = "extend", !.lid = cached])
    /\ UNCHANGED <<instance, resolvers, lists, cached, env, subscribers, exc, outcome, last, pre, log>>

\* .extend(imports) on that list, TypeError when imports cannot be iterated;
\* iter(cls.resolvers.keys())
AddImportsExtend(t) ==
    /\ At(t, "add_imports", "extend")
    /\ IF Iterable(Top(t).imps)
       THEN /\ lists' = [lists EXCEPT ![Top(t).lid] = @ \o Items(Top(t).imps)]
            /\ Goto(t, [Top(t) EXCEPT !.pc = "loop", !.idx = 0, !.n = Len(resolvers)])
            /\ UNCHANGED exc
       ELSE /\ Raise(t, "TypeError")
            /\ UNCHANGED <<lists, stack>>
    /\ UNCHANGED <<instance, resolvers, cached, env, subscribers, outcome, last, pre, log>>

\* for protocol in cls.resolvers.keys(): _EM.emit(RegisterResolverEvent(protocol))
AddImportsLoop(t) ==
    /\ At(t, "add_imports", "loop")
    /\ IF Len(resolvers) # Top(t).n
       THEN \* dictionary changed size during iteration
            /\ Raise(t, "RuntimeError")
            /\ UNCHANGED <<stack, outcome, lists, cached>>
       ELSE IF Top(t).idx < Top(t).n
       THEN /\ Call(t, [Top(t) EXCEPT !.idx = @ + 1],
                    EmitFrame("RegisterResolverEvent", resolvers[Top(t).idx + 1]))
            /\ UNCHANGED <<outcome, lists, cached>>
       ELSE /\ Leave(t, "returned")
            /\ Collect(t)
            /\ UNCHANGED exc
    /\ UNCHANGED <<instance, resolvers, env, subscribers, last, pre, log>>

(***************************************************************************)
(* ConfigEnvironment.merge_source                                          *)
(***************************************************************************)
CallMergeSource(t, res) ==
    Begin(t, MergeSourceFrame(res), [op |-> "merge_source", res |-> res])

\* merge_source without `if not isinstance(data, dict): data = {}`: what was
\* loaded goes on as data, and self.merge(data) replaces the tree by it
KeepLoaded(loaded) == IF IsDict(loaded) THEN loaded ELSE Dict(One(K("data"), loaded))
\* data = source.load() as merge_source goes on with it
AsMapping(loaded) == IF IsDict(loaded) THEN loaded ELSE EmptyDict

\* data = source.load(); if not isinstance(data, dict): data = {}
MergeSourceLoad(t) ==
    /\ At(t, "merge_source", "load")
    /\ IF LoadRaises(Top(t).res)
       THEN /\ Raise(t, "LoadError")
            /\ UNCHANGED stack
       ELSE /\ Goto(t, [Top(t) EXCEPT !.pc = "imports",
                          !.data = AsMapping(Load(Top(t).res))])
            /\ UNCHANGED exc
    /\ log' = Append(log, [k |-> "load", res |-> Top(t).res])
    /\ UNCHANGED <<instance, resolvers, lists, cached, env, subscribers, outcome, last, pre>>

\* `if imports:` for the value found at config.imports
Truthy(v) ==
    CASE v.t = "list" -> v.lv # <<>>
      [] v.t = "dict" -> DOMAIN v.dv # {}
      [] v.t = "num" -> v.nv # 0
      [] v.t = "str" -> v.sv # <<>>
      [] OTHER -> FALSE

\* a scan of the cumulative environment instead of the loaded mapping
Cumulative(t) == Dict(env)
\* the mapping extract_imports is given: the one just loaded
Scanned(t) == Top(t).data

\* imports = self.extract_imports(data); if imports: ImportResolver.add_imports(imports)
MergeSourceImports(t) ==
    /\ At(t, "merge_source", "imports")
    /\ LET imports == ExtractImports(Scanned(t))
       IN  IF Truthy(imports)
           THEN Call(t, [Top(t) EXCEPT !.pc = "merge"], AddImportsFrame(imports))
           ELSE Goto(t, [Top(t) EXCEPT !.pc = "merge"]) /\ UNCHANGED exc
    /\ UNCHANGED <<instance, resolvers, lists, cached, env, subscribers, outcome, last, pre, log>>

\* the none_mode merge_source leaves to the default of merge
MergeSourceNoneMode == DefaultNoneMode

\* a merge in which the values the environment already holds win
MergeSourceUnder(t) ==
    /\ At(t, "merge_source", "merge")
    /\ env' = MergeMap(Top(t).data.dv, env, MergeSourceNoneMode)
    /\ log' = Append(log, [k |-> "merge", res |-> Top(t).res])
    /\ Leave(t, "returned")
    /\ Collect(t)
    /\ UNCHANGED <<instance, resolvers, subscribers, exc, last, pre>>

\* self.merge(data)
MergeSourceMerge(t) ==
    /\ At(t, "merge_source", "merge")
    /\ env' = MergeMap(env, Top(t).data.dv, MergeSourceNoneMode)
    /\ log' = Append(log, [k |-> "merge", res |-> Top(t).res])
    /\ Leave(t, "returned")
    /\ Collect(t)
    /\ UNCHANGED <<instance, resolvers, subscribers, exc, last, pre>>

(***************************************************************************)
(* EventBus                                                                *)
(***************************************************************************)
HasKey(subsmap, etype) == \E i \in 1..Len(subsmap) : subsmap[i].etype = etype
KeyIndex(subsmap, etype) == CHOOSE i \in 1..Len(subsmap) : subsmap[i].etype = etype

\* self._subscribers[event_type] of the defaultdict: a missing key is created
Touch(subsmap, etype) ==
    IF HasKey(subsmap, etype) THEN subsmap
    ELSE Append(subsmap, [etype |-> etype, subs |-> <<>>])

\* subscribe(): append, then sort the list of that type by priority
AddSubscriber(subsmap, sub) ==
    LET m == Touch(subsmap, sub.event_type)
        i == KeyIndex(m, sub.event_type)
    IN  [m EXCEPT ![i].subs = SortByPriority(Append(@, sub))]

RECURSIVE Without(_, _)
Without(subs, callback) ==
    IF subs = <<>> THEN <<>>
    ELSE IF Head(subs).callback = callback THEN Without(Tail(subs), callback)
    ELSE <<Head(subs)>> \o Without(Tail(subs), callback)

\* the callback taken out of the lists of all event types
RemoveEverywhere(subsmap, etype, callback) ==
    LET m == Touch(subsmap, etype)
    IN  [i \in 1..Len(m) |-> [m[i] EXCEPT !.subs = Without(@, callback)]]

\* unsubscribe(event_type, callback)
RemoveSubscriber(subsmap, etype, callback) ==
    LET m == Touch(subsmap, etype)
        i == KeyIndex(m, etype)
    IN  [m EXCEPT ![i].subs = Without(@, callback)]

\* clear(event_type)
ClearType(subsmap, etype) ==
    LET m == Touch(subsmap, etype)
        i == KeyIndex(m, etype)
    IN  [m EXCEPT ![i].subs = <<>>]

\* emit(): the subscribers of every registered type the event is an instance of,
\* type by type in the order of the dict
RECURSIVE Applicable(_, _)
Applicable(subsmap, event_type) ==
    IF subsmap = <<>> THEN <<>>
    ELSE (IF IsSubclass(event_type, Head(subsmap).etype) THEN Head(subsmap).subs ELSE <<>>)
         \o Applicable(Tail(subsmap), event_type)

\* the predicate of a subscriber applied to an event: "never" is false for
\* every event, "is_child" is isinstance(event, ChildEvent), "raises" raises
ConditionHolds(condition, ev) ==
    CASE condition = "never" -> FALSE
      [] condition = "is_child" -> IsSubclass(ev, "ChildEvent")
      [] OTHER -> TRUE
ConditionRaises(condition) == condition = "raises"

\* a dispatch that keeps a lock which is not re-entrant from the collection to
\* the end: an emit called from inside a callback waits for it
EmitCollectExclusive(t) ==
    /\ At(t, "emit", "collect")
    /\ \A u \in Threads : \A i \in 1..Len(stack[u]) :
           stack[u][i].fn = "emit" => (u = t /\ i = Len(stack[t]))
    /\ Goto(t, [Top(t) EXCEPT !.pc = "next", !.idx = 0,
                  !.subs = SortByPriority(Applicable(subscribers, Top(t).ev))])
    /\ UNCHANGED <<instance, resolvers, lists, cached, env, subscribers, exc, outcome, last, pre, log>>

\* with self._lock: applicable_subs = ...; sorted(applicable_subs, key=-priority)
\* (the lock is taken and released within this step, as in subscribe,
\* unsubscribe and clear; no callback runs while it is held)
EmitCollect(t) ==
    /\ At(t, "emit", "collect")
    /\ Goto(t, [Top(t) EXCEPT !.pc = "next", !.idx = 0,
                  !.subs = SortByPriority(Applicable(subscribers, Top(t).ev))])
    /\ UNCHANGED <<instance, resolvers, lists, cached, env, subscribers, exc, outcome, last, pre, log>>

\* the callback of an async_ subscriber called like any other, on the stack of
\* the emitting thread
RunInline(t, sub) ==
    /\ Call(t, [Top(t) EXCEPT !.pc = "called"], CallbackFrame(sub.callback, Top(t).ev))
    /\ log' = Append(log, [k |-> "start", sub |-> sub, ev |-> Top(t).ev])

\* threading.Thread(target=sub.callback, args=(event,), daemon=True).start():
\* the callback begins on a thread of its own and emit goes on; start() raises
\* RuntimeError when the system has no thread left to give
StartThread(t, sub) ==
    LET free == {w \in Threads \ {t} : stack[w] = <<>>}
        on   == [Top(t) EXCEPT !.pc = "called"]
    IN  IF free = {}
        THEN /\ stack' = [stack EXCEPT ![t] = ReplaceTop(@, on)]
             /\ exc' = [exc EXCEPT ![t] = "RuntimeError"]
             /\ UNCHANGED log
        ELSE /\ \E w \in free :
                   stack' = [stack EXCEPT ![t] = ReplaceTop(@, on),
                                          ![w] = <<CallbackFrame(sub.callback, Top(t).ev)>>]
             /\ log' = Append(log, [k |-> "start", sub |-> sub, ev |-> Top(t).ev])
             /\ UNCHANGED exc

\* a dispatch loop that reads the lists of the bus again at every turn
Live(t) == SortByPriority(Applicable(subscribers, Top(t).ev))

\* the list the for statement of emit iterates: the sorted copy made under the
\* lock when emit began
Iterated(t) == Top(t).subs

\* one turn of `for sub in sorted(...)` up to the call of the callback
EmitNext(t) ==
    /\ At(t, "emit", "next")
    /\ IF Top(t).idx >= Len(Iterated(t))
       THEN /\ Goto(t, [Top(t) EXCEPT !.pc = "remove", !.idx = 0])
            /\ UNCHANGED <<exc, log>>
       ELSE LET sub == Iterated(t)[Top(t).idx + 1]
            IN  IF sub.condition # "none" /\ ConditionRaises(sub.condition)
                THEN \* the predicate is called outside the try statement
                     /\ Raise(t, "ValueError")
                     /\ UNCHANGED <<stack, log>>
                ELSE IF sub.condition # "none" /\ ~ConditionHolds(sub.condition, Top(t).ev)
                THEN /\ Goto(t, [Top(t) EXCEPT !.idx = @ + 1])
                     /\ UNCHANGED <<exc, log>>
                ELSE IF sub.async_
                THEN StartThread(t, sub)
                ELSE /\ Call(t, [Top(t) EXCEPT !.pc = "called"],
                             IF sub.callback = "on_register_resolver"
                             THEN SweepFrame(Top(t).proto)
                             ELSE CallbackFrame(sub.callback, Top(t).ev))
                     /\ log' = Append(log, [k |-> "invoke", sub |-> sub, ev |-> Top(t).ev])
    /\ UNCHANGED <<instance, resolvers, lists, cached, env, subscribers, outcome, last, pre>>

\* after the try statement: if sub.once: subscribers_to_remove.append(sub)
AfterCallback(f) ==
    LET sub == f.subs[f.idx + 1]
    IN  [f EXCEPT !.pc = "next", !.idx = @ + 1,
                  !.rm = IF sub.once THEN Append(@, sub) ELSE @]

EmitAfter(t) ==
    /\ At(t, "emit", "called")
    /\ Goto(t, AfterCallback(Top(t)))
    /\ UNCHANGED <<instance, resolvers, lists, cached, env, subscribers, exc, outcome, last, pre, log>>

\* a dispatch loop without the except clause: the exception leaves emit
EmitUncaught(t) ==
    /\ stack[t] # <<>> /\ exc[t] # "none"
    /\ Top(t).fn = "emit" /\ Top(t).pc = "called"
    /\ Leave(t, exc[t])
    /\ exc' = IF Len(stack[t]) = 1 THEN [exc EXCEPT ![t] = "none"] ELSE exc
    /\ Collect(t)
    /\ UNCHANGED <<instance, resolvers, env, subscribers, last, pre, log>>

\* except Exception as e: logging.info(...)
EmitCatch(t) ==
    /\ stack[t] # <<>> /\ exc[t] # "none"
    /\ Top(t).fn = "emit" /\ Top(t).pc = "called"
    /\ exc' = [exc EXCEPT ![t] = "none"]
    /\ Goto(t, AfterCallback(Top(t)))
    /\ log' = Append(log, [k |-> "caught", e |-> exc[t]])
    /\ UNCHANGED <<instance, resolvers, lists, cached, env, subscribers, outcome, last, pre>>

\* for sub in subscribers_to_remove: self.unsubscribe(sub.event_type, sub.callback)
EmitRemove(t) ==
    /\ At(t, "emit", "remove")
    /\ IF Top(t).idx < Len(Top(t).rm)
       THEN LET sub == Top(t).rm[Top(t).idx + 1]
            IN  /\ subscribers' = RemoveSubscriber(subscribers, sub.event_type, sub.callback)
                /\ Goto(t, [Top(t) EXCEPT !.idx = @ + 1])
                /\ UNCHANGED <<outcome, lists, cached>>
       ELSE /\ Leave(t, "returned")
            /\ Collect(t)
            /\ UNCHANGED subscribers
    /\ UNCHANGED <<instance, resolvers, env, exc, last, pre, log>>

\* an exception leaves every frame that does not catch it
Unwind(t) ==
    /\ stack[t] # <<>> /\ exc[t] # "none"
    /\ ~(Top(t).fn = "emit" /\ Top(t).pc = "called")
    /\ Leave(t, exc[t])
    /\ exc' = IF Len(stack[t]) = 1 THEN [exc EXCEPT ![t] = "none"] ELSE exc
    /\ Collect(t)
    /\ UNCHANGED <<instance, resolvers, env, subscribers, last, pre, log>>

\* a subscriber callback other than the sweep
CallbackRaises(cb) == cb \in {"boom", "crash"}

\* the callbacks that use the bus themselves: "relay" emits a GrandChildEvent
\* when it is handed any other event, "drop" unsubscribes "f" from Event,
\* "adder" subscribes "late" to Event, "clearer" clears the bus
UsesBus(cb) == cb \in {"relay", "drop", "adder", "clearer"}

\* the subscribers of the startup event that the handler modules register
OnStartup(cb) == cb \in {"init_logger_onstartup", "init_config_onstartup"}

CallbackRun(t) ==
    /\ At(t, "callback", "run")
    /\ ~UsesBus(Top(t).cb) /\ ~OnStartup(Top(t).cb)
    /\ IF CallbackRaises(Top(t).cb)
       THEN Raise(t, "ValueError") /\ UNCHANGED <<stack, outcome, lists, cached>>
       ELSE Leave(t, "returned") /\ Collect(t) /\ UNCHANGED exc
    /\ UNCHANGED <<instance, resolvers, env, subscribers, last, pre, log>>

\* def relay(event): if not isinstance(event, GrandChildEvent): bus.emit(GrandChildEvent())
RelayRun(t) ==
    /\ At(t, "callback", "run")
    /\ Top(t).cb = "relay"
    /\ IF Top(t).ev = "GrandChildEvent"
       THEN Leave(t, "returned") /\ Collect(t) /\ UNCHANGED exc
       ELSE /\ Call(t, [Top(t) EXCEPT !.pc = "back"], EmitFrame("GrandChildEvent", <<>>))
            /\ UNCHANGED <<outcome, lists, cached>>
    /\ UNCHANGED <<instance, resolvers, env, subscribers, last, pre, log>>

\* the emit called by relay has returned
RelayReturn(t) ==
    /\ At(t, "callback", "back")
    /\ Leave(t, "returned")
    /\ Collect(t)
    /\ UNCHANGED <<instance, resolvers, env, subscribers, exc, last, pre, log>>

\* def drop(event): bus.unsubscribe(Event, f)
DropRun(t) ==
    /\ At(t, "callback", "run")
    /\ Top(t).cb = "drop"
    /\ subscribers' = RemoveSubscriber(subscribers, "Event", "f")
    /\ Leave(t, "returned")
    /\ Collect(t)
    /\ UNCHANGED <<instance, resolvers, env, exc, last, pre, log>>

(***************************************************************************)
(* on_register_resolver: the sweep                                         *)
(***************************************************************************)
\* remaining = []; iter(ImportResolver.cached_imports)
SweepStart(t) ==
    /\ At(t, "on_register_resolver", "start")
    /\ Goto(t, [Top(t) EXCEPT !.pc = "iter", !.idx = 0, !.lid = cached, !.rem = <<>>])
    /\ UNCHANGED <<instance, resolvers, lists, cached, env, subscribers, exc, outcome, last, pre, log>>

\* one turn of `for imp in ...`, up to the call of merge_source
SweepIter(t) ==
    /\ At(t, "on_register_resolver", "iter")
    /\ LET imp  == lists[Top(t).lid][Top(t).idx + 1]
           skip == [Top(t) EXCEPT !.idx = @ + 1]
           keep == [Top(t) EXCEPT !.idx = @ + 1, !.rem = Append(@, imp)]
       IN  IF Top(t).idx >= Len(lists[Top(t).lid])
           THEN Goto(t, [Top(t) EXCEPT !.pc = "assign"]) /\ UNCHANGED <<exc, log>>
           ELSE IF imp = <<>>
           THEN Goto(t, skip) /\ UNCHANGED <<exc, log>>
           ELSE IF ~Contains(imp, COLON)
           THEN Goto(t, keep) /\ UNCHANGED <<exc, log>>
           ELSE LET pfx    == SplitOnce(imp, COLON)[1]
                    target == SplitOnce(imp, COLON)[2]
                IN  IF pfx = Top(t).proto
                    THEN IF \E i \in 1..Len(resolvers) : resolvers[i] = pfx
                         THEN /\ Call(t, skip, MergeSourceFrame(Resolve(pfx, Strip(target))))
                              /\ log' = Append(log, [k |-> "resolve", imp |-> imp,
                                                     res |-> Resolve(pfx, Strip(target))])
                         ELSE Raise(t, "KeyError") /\ UNCHANGED <<stack, log>>
                    ELSE Goto(t, keep) /\ UNCHANGED <<exc, log>>
    /\ UNCHANGED <<instance, resolvers, lists, cached, env, subscribers, outcome, last, pre>>

\* ImportResolver.cached_imports = remaining
SweepAssign(t) ==
    /\ At(t, "on_register_resolver", "assign")
    /\ lists' = Append(lists, Top(t).rem)
    /\ cached' = Len(lists) + 1
    /\ Leave(t, "returned")
    /\ UNCHANGED <<instance, resolvers, env, subscribers, exc, last, pre, log>>

(***************************************************************************)
(* Calls on the bus from outside                                           *)
(***************************************************************************)
BusTypes == {"Event", "ChildEvent", "GrandChildEvent"}
Priorities == {0, 10}
Profiles ==
    { [callback |-> "f", condition |-> "none", async_ |-> FALSE, once |-> FALSE],
      [callback |-> "g", condition |-> "none", async_ |-> FALSE, once |-> TRUE],
      [callback |-> "boom", condition |-> "none", async_ |-> FALSE, once |-> FALSE] }

\* the subscribers of all types, and the next free creation number
AllSubscribers(subsmap) ==
    UNION {{subsmap[i].subs[j] : j \in 1..Len(subsmap[i].subs)} : i \in 1..Len(subsmap)}
NextSeq(subsmap) ==
    LET used == {sub.seq : sub \in AllSubscribers(subsmap)}
    IN  IF used = {} THEN 1 ELSE 1 + CHOOSE m \in used : \A n \in used : n <= m

\* subscribe, unsubscribe and clear from outside a dispatch take one step; what
\* is remembered of the call before them is dropped
NoPre == [resolvers |-> <<>>, cache |-> <<>>, env |-> EmptyMap, subscribers |-> <<>>]
Forget(t, call) ==
    /\ last' = [last EXCEPT ![t] = call]
    /\ outcome' = [outcome EXCEPT ![t] = "returned"]
    /\ pre' = NoPre
    /\ log' = <<>>

\* @bus.subscribe(event_type, condition=, priority=, async_=, once=) on a function
Subscribe(t, etype, profile, priority) ==
    /\ stack[t] = <<>>
    /\ NextSeq(subscribers) <= MaxSubs
    /\ subscribers' = AddSubscriber(subscribers,
           Subscriber(profile.callback, etype, profile.condition, priority,
                      profile.async_, profile.once, NextSeq(subscribers)))
    /\ Forget(t, [op |-> "subscribe"])
    /\ UNCHANGED <<instance, resolvers, lists, cached, env, stack, exc>>

\* of the calls before it, an unsubscribe keeps what the bus held
Unsubscribe(t, etype, callback) ==
    /\ stack[t] = <<>>
    /\ subscribers' = RemoveSubscriber(subscribers, etype, callback)
    /\ last' = [last EXCEPT ![t] = [op |-> "unsubscribe", etype |-> etype, cb |-> callback]]
    /\ outcome' = [outcome EXCEPT ![t] = "returned"]
    /\ pre' = [NoPre EXCEPT !.subscribers = subscribers]
    /\ log' = <<>>
    /\ UNCHANGED <<instance, resolvers, lists, cached, env, stack, exc>>

\* clear(event_type) and clear()
Clear(t, etype) ==
    /\ stack[t] = <<>>
    /\ subscribers' = IF etype = "all" THEN <<>> ELSE ClearType(subscribers, etype)
    /\ Forget(t, [op |-> "clear"])
    /\ UNCHANGED <<instance, resolvers, lists, cached, env, stack, exc>>

\* def adder(event): bus.subscribe(Event, priority=10)(late)
AddRun(t) ==
    /\ At(t, "callback", "run")
    /\ Top(t).cb = "adder"
    /\ subscribers' = AddSubscriber(subscribers,
           Subscriber("late", "Event", "none", 10, FALSE, FALSE, NextSeq(subscribers)))
    /\ Leave(t, "returned")
    /\ Collect(t)
    /\ UNCHANGED <<instance, resolvers, env, exc, last, pre, log>>

\* def clearer(event): bus.clear()
ClearRun(t) ==
    /\ At(t, "callback", "run")
    /\ Top(t).cb = "clearer"
    /\ subscribers' = <<>>
    /\ Leave(t, "returned")
    /\ Collect(t)
    /\ UNCHANGED <<instance, resolvers, env, exc, last, pre, log>>

CallEmit(t, etype) ==
    Begin(t, EmitFrame(etype, <<>>), [op |-> "emit", ev |-> etype])

(***************************************************************************)
(* Specifications                                                          *)
(***************************************************************************)
\* the subscription made when the configuration module is loaded
\* the sweep subscribed without a priority
SweepAtDefault ==
    Subscriber("on_register_resolver", "RegisterResolverEvent", "none", 0, FALSE, FALSE, 1)

SweepSubscriber ==
    Subscriber("on_register_resolver", "RegisterResolverEvent", "none", 10, FALSE, FALSE, 1)

InitCommon ==
    /\ lists = <<(<<>>)>>
    /\ cached = 1
    /\ env = EmptyMap
    /\ stack = [t \in Threads |-> <<>>]
    /\ exc = [t \in Threads |-> "none"]
    /\ outcome = [t \in Threads |-> "none"]
    /\ last = [t \in Threads |-> [op |-> "none"]]
    /\ log = <<>>

Init ==
    /\ InitCommon
    /\ instance = Constructed
    /\ resolvers = <<>>
    /\ subscribers = AddSubscriber(<<>>, SweepSubscriber)
    /\ pre = [resolvers |-> <<>>, cache |-> <<>>, env |-> EmptyMap,
              subscribers |-> subscribers]

\* the steps of emit and of exception propagation in thread t
BusStep(t) ==
    \/ EmitCollect(t)
    \/ EmitNext(t)
    \/ EmitAfter(t)
    \/ EmitCatch(t)
    \/ EmitRemove(t)
    \/ Unwind(t)

\* the steps of register, add_imports, merge_source and the sweep in thread t
ImportStep(t) ==
    \/ RegisterSet(t)
    \/ RegisterEmit(t)
    \/ RegisterReturn(t)
    \/ AddImportsRef(t)
    \/ AddImportsExtend(t)
    \/ AddImportsLoop(t)
    \/ MergeSourceLoad(t)
    \/ MergeSourceImports(t)
    \/ MergeSourceMerge(t)
    \/ SweepStart(t)
    \/ SweepIter(t)
    \/ SweepAssign(t)

\* one thread calling register, add_imports and merge_source one after another
Next ==
    \/ \E p \in Protocols : CallRegister(1, p)
    \/ \E imports \in ImportLists : CallAddImports(1, imports)
    \/ \E res \in TopResources : CallMergeSource(1, res)
    \/ ImportStep(1)
    \/ BusStep(1)

Spec == Init /\ [][Next]_vars

\* merge_source of resources that load no mapping, a mapping whose
\* config.imports is no list, or nulls, into an environment that holds values;
\* the protocol x is registered beforehand or not, and may be registered again
SourceResources == {"scalar", "nil", "seq", "imp_str", "imp_map", "imp_num", "nulls", "more"}
SourceTrees ==
    {EmptyMap,
     One(K("a"), Num(1)),
     Join(One(K("a"), Num(1)), One(K("b"), Dict(One(K("x"), Num(2))))),
     Join(One(K("a"), Num(1)), One(K("b"), Num(3)))}

InitSource ==
    /\ lists = <<(<<>>)>> /\ cached = 1
    /\ env \in SourceTrees
    /\ instance = Constructed
    /\ resolvers \in {<<>>, <<P_x>>}
    /\ subscribers = AddSubscriber(<<>>, SweepSubscriber)
    /\ stack = [t \in Threads |-> <<>>]
    /\ exc = [t \in Threads |-> "none"]
    /\ outcome = [t \in Threads |-> "none"]
    /\ last = [t \in Threads |-> [op |-> "none"]]
    /\ pre = [resolvers |-> resolvers, cache |-> <<>>, env |-> env,
              subscribers |-> subscribers]
    /\ log = <<>>

NextSource ==
    \/ \E res \in SourceResources : CallMergeSource(1, res)
    \/ CallRegister(1, P_x)
    \/ ImportStep(1)
    \/ BusStep(1)

SpecSource == InitSource /\ [][NextSource]_vars

\* register() on a bus where application subscribers of the resolver-registered
\* event with the default priority stand next to the sweep, registered before
\* or after it, and entries wait in the cache
NotifyProfiles == {"f", "boom"}
NotifyCaches == {<<>>, <<I_more>>, <<I_x1>>, <<I_x2, I_more>>}
Listener(cb, seq) == Subscriber(cb, "RegisterResolverEvent", "none", 0, FALSE, FALSE, seq)

InitNotify ==
    /\ \E cache \in NotifyCaches : lists = <<cache>>
    /\ cached = 1
    /\ env = EmptyMap
    /\ instance = Constructed
    /\ resolvers \in {<<>>, <<P_file>>}
    /\ \E cb \in NotifyProfiles :
          subscribers \in
              {AddSubscriber(AddSubscriber(<<>>, SweepSubscriber), Listener(cb, 2)),
               AddSubscriber(AddSubscriber(<<>>, Listener(cb, 0)), SweepSubscriber)}
    /\ stack = [t \in Threads |-> <<>>]
    /\ exc = [t \in Threads |-> "none"]
    /\ outcome = [t \in Threads |-> "none"]
    /\ last = [t \in Threads |-> [op |-> "none"]]
    /\ pre = [resolvers |-> resolvers, cache |-> cached_imports, env |-> env,
              subscribers |-> subscribers]
    /\ log = <<>>

NextNotify ==
    \/ \E p \in {P_x, P_http} : CallRegister(1, p)
    \/ CallbackRun(1)
    \/ ImportStep(1)
    \/ BusStep(1)

SpecNotify == InitNotify /\ [][NextNotify]_vars

\* the bus when the handler modules have been imported, in any order: the
\* sweep, the logger and the configuration subscribers of the startup event,
\* and startup subscribers of lower priority; then the startup event is emitted
StartupProfiles ==
    { [callback |-> "init_logger_onstartup", priority |-> maxsize],
      [callback |-> "init_config_onstartup", priority |-> maxsize - 1],
      [callback |-> "boom", priority |-> maxsize - 2],
      [callback |-> "f", priority |-> 0] }
RequiredOnStartup == {p \in StartupProfiles : OnStartup(p.callback)}

\* the orders in which a set of subscribers can be registered
Orders(S) ==
    {q \in [1..Cardinality(S) -> S] : \A i, j \in 1..Cardinality(S) : i # j => q[i] # q[j]}

RECURSIVE RegisteredInOrder(_)
RegisteredInOrder(q) ==
    IF q = <<>> THEN AddSubscriber(<<>>, SweepSubscriber)
    ELSE LET before == RegisteredInOrder(SubSeq(q, 1, Len(q) - 1))
             p      == q[Len(q)]
         IN  AddSubscriber(before,
                 Subscriber(p.callback, ApplicationStartupEvent, "none", p.priority,
                            FALSE, FALSE, NextSeq(before)))

InitStartup ==
    /\ InitCommon
    /\ instance = Constructed
    /\ resolvers = <<P_file, P_http>>
    /\ \E S \in SUBSET StartupProfiles :
          /\ RequiredOnStartup \subseteq S
          /\ \E q \in Orders(S) : subscribers = RegisteredInOrder(q)
    /\ pre = [resolvers |-> resolvers, cache |-> <<>>, env |-> EmptyMap,
              subscribers |-> subscribers]

\* _EM.emit(ApplicationStartupEvent()), once
StartupEmit(t) ==
    /\ outcome[t] = "none"
    /\ stack' = [stack EXCEPT ![t] = <<EmitFrame(ApplicationStartupEvent, <<>>)>>]
    /\ last' = [last EXCEPT ![t] = [op |-> "emit", ev |-> ApplicationStartupEvent]]
    /\ outcome' = [outcome EXCEPT ![t] = "running"]
    /\ UNCHANGED <<instance, resolvers, lists, cached, env, subscribers, exc, pre, log>>

\* init_logger_onstartup: sets the log file up, which the file system may refuse
LoggerStartupRun(t) ==
    /\ At(t, "callback", "run")
    /\ Top(t).cb = "init_logger_onstartup"
    /\ \/ Leave(t, "returned") /\ Collect(t) /\ UNCHANGED exc
       \/ Raise(t, "OSError") /\ UNCHANGED <<stack, outcome, lists, cached>>
    /\ UNCHANGED <<instance, resolvers, env, subscribers, last, pre, log>>

\* init_config_onstartup: returns when there is no configuration file, else
\* _APP.ENV.merge_source(FileResolver().resolve(config_path))
ConfigStartupRun(t) ==
    /\ At(t, "callback", "run")
    /\ Top(t).cb = "init_config_onstartup"
    /\ \/ Leave(t, "returned") /\ Collect(t) /\ UNCHANGED exc
       \/ /\ Call(t, [Top(t) EXCEPT !.pc = "back"], MergeSourceFrame("boot"))
          /\ UNCHANGED <<outcome, lists, cached>>
    /\ UNCHANGED <<instance, resolvers, env, subscribers, last, pre, log>>

NextStartup ==
    \/ StartupEmit(1)
    \/ LoggerStartupRun(1)
    \/ ConfigStartupRun(1)
    \/ RelayReturn(1)
    \/ CallbackRun(1)
    \/ AddImportsRef(1)
    \/ AddImportsExtend(1)
    \/ AddImportsLoop(1)
    \/ MergeSourceLoad(1)
    \/ MergeSourceImports(1)
    \/ MergeSourceMerge(1)
    \/ SweepStart(1)
    \/ SweepIter(1)
    \/ SweepAssign(1)
    \/ BusStep(1)

SpecStartup == InitStartup /\ [][NextStartup]_vars

\* a bus of its own: subscribe, unsubscribe, clear and emit from one thread
InitBus ==
    /\ InitCommon
    /\ instance = Constructed
    /\ resolvers = <<>>
    /\ subscribers = <<>>
    /\ pre = [resolvers |-> <<>>, cache |-> <<>>, env |-> EmptyMap,
              subscribers |-> <<>>]

NextBus ==
    \/ \E etype \in BusTypes, profile \in Profiles, priority \in Priorities :
           Subscribe(1, etype, profile, priority)
    \/ \E etype \in BusTypes, profile \in Profiles :
           Unsubscribe(1, etype, profile.callback)
    \/ \E etype \in BusTypes \cup {"all"} : Clear(1, etype)
    \/ \E etype \in BusTypes : CallEmit(1, etype)
    \/ CallbackRun(1)
    \/ BusStep(1)

SpecBus == InitBus /\ [][NextBus]_vars

\* two threads, each making one call of add_imports or register('http'), with
\* 'http' registered beforehand
ConcImportLists == {<<I_more>>, <<I_y9>>, <<I_bad>>}

InitConc ==
    /\ InitCommon
    /\ instance = Constructed
    /\ resolvers = <<P_http>>
    /\ subscribers = AddSubscriber(<<>>, SweepSubscriber)
    /\ pre = [resolvers |-> resolvers, cache |-> <<>>, env |-> EmptyMap,
              subscribers |-> subscribers]

ConcAddImports(t, imports) == outcome[t] = "none" /\ CallAddImports(t, imports)
ConcRegister(t, protocol) == outcome[t] = "none" /\ CallRegister(t, protocol)

NextConc ==
    \/ \E t \in Threads, imports \in ConcImportLists : ConcAddImports(t, imports)
    \/ \E t \in Threads : ConcRegister(t, P_http)
    \/ \E t \in Threads : ImportStep(t)
    \/ \E t \in Threads : BusStep(t)

SpecConc == InitConc /\ [][NextConc]_vars

\* a bus with two registrations made beforehand, on which each of two threads
\* emits one ChildEvent; callbacks may emit and unsubscribe from inside the
\* dispatch; the log is kept over both emits
DispatchProfiles ==
    { [callback |-> "f", condition |-> "none", async_ |-> FALSE, once |-> FALSE],
      [callback |-> "f", condition |-> "none", async_ |-> FALSE, once |-> TRUE],
      [callback |-> "relay", condition |-> "none", async_ |-> FALSE, once |-> FALSE],
      [callback |-> "drop", condition |-> "none", async_ |-> FALSE, once |-> FALSE],
      [callback |-> "boom", condition |-> "none", async_ |-> FALSE, once |-> FALSE] }

Registrations ==
    [profile : DispatchProfiles, etype : {"Event", "ChildEvent"}, priority : Priorities]

\* the bus after subscribe() was called for a and then for b
Registered(a, b) ==
    LET first == AddSubscriber(<<>>,
                     Subscriber(a.profile.callback, a.etype, a.profile.condition,
                                a.priority, a.profile.async_, a.profile.once, 1))
    IN  AddSubscriber(first,
            Subscriber(b.profile.callback, b.etype, b.profile.condition,
                       b.priority, b.profile.async_, b.profile.once, NextSeq(first)))

InitDispatch ==
    /\ InitCommon
    /\ instance = Constructed
    /\ resolvers = <<>>
    /\ \E a, b \in Registrations : subscribers = Registered(a, b)
    /\ pre = [resolvers |-> <<>>, cache |-> <<>>, env |-> EmptyMap,
              subscribers |-> subscribers]

\* bus.emit(ChildEvent()) as the one call of thread t
DispatchEmit(t) ==
    /\ outcome[t] = "none"
    /\ stack' = [stack EXCEPT ![t] = <<EmitFrame("ChildEvent", <<>>)>>]
    /\ last' = [last EXCEPT ![t] = [op |-> "emit", ev |-> "ChildEvent"]]
    /\ outcome' = [outcome EXCEPT ![t] = "running"]
    /\ UNCHANGED <<instance, resolvers, lists, cached, env, subscribers, exc, pre, log>>

NextDispatch ==
    \/ \E t \in Threads : DispatchEmit(t)
    \/ \E t \in Threads : CallbackRun(t)
    \/ \E t \in Threads : RelayRun(t)
    \/ \E t \in Threads : RelayReturn(t)
    \/ \E t \in Threads : DropRun(t)
    \/ \E t \in Threads : BusStep(t)

SpecDispatch == InitDispatch /\ [][NextDispatch]_vars

\* a bus with three registrations under Event, some with a predicate: one that
\* holds for a ChildEvent only, one that never holds, one that raises, and a
\* callback that raises; Event and ChildEvent are emitted one after another
CondProfiles ==
    { [callback |-> "f", condition |-> "is_child", async_ |-> FALSE, once |-> TRUE],
      [callback |-> "f", condition |-> "none", async_ |-> FALSE, once |-> TRUE],
      [callback |-> "g", condition |-> "never", async_ |-> FALSE, once |-> TRUE],
      [callback |-> "g", condition |-> "raises", async_ |-> FALSE, once |-> FALSE],
      [callback |-> "boom", condition |-> "none", async_ |-> FALSE, once |-> FALSE],
      [callback |-> "h", condition |-> "none", async_ |-> FALSE, once |-> FALSE] }
CondRegistrations == [profile : CondProfiles, etype : {"Event"}, priority : Priorities]

\* the bus after subscribe() was called for a, b and c
Registered3(a, b, c) ==
    LET two == Registered(a, b)
    IN  AddSubscriber(two,
            Subscriber(c.profile.callback, c.etype, c.profile.condition,
                       c.priority, c.profile.async_, c.profile.once, NextSeq(two)))

InitCond ==
    /\ InitCommon
    /\ instance = Constructed
    /\ resolvers = <<>>
    /\ \E a, b, c \in CondRegistrations : subscribers = Registered3(a, b, c)
    /\ pre = [resolvers |-> <<>>, cache |-> <<>>, env |-> EmptyMap,
              subscribers |-> subscribers]

NextCond ==
    \/ \E etype \in {"Event", "ChildEvent"} : CallEmit(1, etype)
    \/ CallbackRun(1)
    \/ BusStep(1)

SpecCond == InitCond /\ [][NextCond]_vars

\* merge_source of a resource that sets c=1 and imports 'http://host/more.yml',
\* which sets c=3, and of one that sets d=1 and imports 'x:1', which sets d=4
\* and has an import of its own; 'http' and 'x' are registered before or after
Importers ==
    { [res |-> "main", imp |-> I_more, proto |-> P_http, of |-> "more", key |-> "c", theirs |-> 3],
      [res |-> "lead", imp |-> I_x1, proto |-> P_x, of |-> "one", key |-> "d", theirs |-> 4] }

InitOrder ==
    /\ InitCommon
    /\ instance = Constructed
    /\ resolvers \in {<<>>, <<P_http>>, <<P_x>>}
    /\ subscribers = AddSubscriber(<<>>, SweepSubscriber)
    /\ pre = [resolvers |-> resolvers, cache |-> <<>>, env |-> EmptyMap,
              subscribers |-> subscribers]

NextOrder ==
    \/ \E m \in Importers : Len(cached_imports) < MaxCache /\ CallMergeSource(1, m.res)
    \/ \E p \in {P_x, P_http} : CallRegister(1, p)
    \/ ImportStep(1)
    \/ BusStep(1)

SpecOrder == InitOrder /\ [][NextOrder]_vars

\* register() called again and again on a cache filled by one add_imports call
\* made while no protocol was registered; the load() of 'http:bad.yml' raises
FailCaches == {<<I_more, I_bad>>, <<I_bad, I_more>>, <<I_more>>, <<I_x2, I_bad>>}

InitFail ==
    /\ \E cache \in FailCaches : lists = <<cache>>
    /\ cached = 1
    /\ env = EmptyMap
    /\ instance = Constructed
    /\ resolvers = <<>>
    /\ subscribers = AddSubscriber(<<>>, SweepSubscriber)
    /\ stack = [t \in Threads |-> <<>>]
    /\ exc = [t \in Threads |-> "none"]
    /\ outcome = [t \in Threads |-> "none"]
    /\ last = [t \in Threads |-> [op |-> "none"]]
    /\ pre = [resolvers |-> resolvers, cache |-> cached_imports, env |-> env,
              subscribers |-> subscribers]
    /\ log = <<>>

NextFail ==
    \/ \E p \in {P_x, P_http} : CallRegister(1, p)
    \/ ImportStep(1)
    \/ BusStep(1)

SpecFail == InitFail /\ [][NextFail]_vars

\* a bus with three registrations whose callbacks subscribe, unsubscribe and
\* clear during the dispatch; Event is emitted while fewer than MaxLate
\* subscribers have been added by callbacks
MaxLate == 2
SnapshotProfiles ==
    { [callback |-> "f", condition |-> "none", async_ |-> FALSE, once |-> FALSE],
      [callback |-> "h", condition |-> "none", async_ |-> FALSE, once |-> TRUE],
      [callback |-> "adder", condition |-> "none", async_ |-> FALSE, once |-> FALSE],
      [callback |-> "drop", condition |-> "none", async_ |-> FALSE, once |-> FALSE],
      [callback |-> "clearer", condition |-> "none", async_ |-> FALSE, once |-> FALSE] }
SnapshotRegistrations ==
    [profile : SnapshotProfiles, etype : {"Event"}, priority : Priorities]

Late(subsmap) == {s \in AllSubscribers(subsmap) : s.callback = "late"}

InitSnapshot ==
    /\ InitCommon
    /\ instance = Constructed
    /\ resolvers = <<>>
    /\ \E a, b, c \in SnapshotRegistrations : subscribers = Registered3(a, b, c)
    /\ pre = [resolvers |-> <<>>, cache |-> <<>>, env |-> EmptyMap,
              subscribers |-> subscribers]

NextSnapshot ==
    \/ Cardinality(Late(subscribers)) < MaxLate /\ CallEmit(1, "Event")
    \/ CallbackRun(1)
    \/ AddRun(1)
    \/ DropRun(1)
    \/ ClearRun(1)
    \/ EmitCollect(1)
    \/ EmitNext(1)
    \/ EmitAfter(1)
    \/ EmitRemove(1)

SpecSnapshot == InitSnapshot /\ [][NextSnapshot]_vars

\* the frame of Proxy.__new__; `entered` tells that the with statement was run
NewFrame(cls) == [fn |-> "__new__", pc |-> "check", cls |-> cls, entered |-> FALSE]

\* cls._instance_lock, a threading.Lock, is held from the entry of the with
\* statement to its exit
HoldsLock(t, cls) ==
    /\ stack[t] # <<>> /\ Top(t).fn = "__new__" /\ Top(t).cls = cls
    /\ Top(t).pc \in {"recheck", "create", "exit"}

\* Proxy(...) called by thread t
CallNew(t, cls) ==
    /\ stack[t] = <<>>
    /\ stack' = [stack EXCEPT ![t] = <<NewFrame(cls)>>]
    /\ last' = [last EXCEPT ![t] = [op |-> "new", cls |-> cls]]
    /\ outcome' = [outcome EXCEPT ![t] = "running"]
    /\ UNCHANGED <<instance, resolvers, lists, cached, env, subscribers, exc, pre, log>>

\* if cls._instance is None: (if not cls._instance: in EventBusInstance)
NewCheck(t) ==
    /\ At(t, "__new__", "check")
    /\ Goto(t, [Top(t) EXCEPT !.pc = IF instance[Top(t).cls] = 0 THEN "enter" ELSE "return"])
    /\ UNCHANGED <<instance, resolvers, lists, cached, env, subscribers, exc, outcome, last, pre, log>>

\* with cls._instance_lock: the thread waits until no thread holds the lock
NewEnter(t) ==
    /\ At(t, "__new__", "enter")
    /\ \A u \in Threads : ~HoldsLock(u, Top(t).cls)
    /\ Goto(t, [Top(t) EXCEPT !.pc = "recheck", !.entered = TRUE])
    /\ UNCHANGED <<instance, resolvers, lists, cached, env, subscribers, exc, outcome, last, pre, log>>

\* a proxy that constructs without looking again once it has the lock
NewNoRecheck(t) ==
    /\ At(t, "__new__", "recheck")
    /\ Goto(t, [Top(t) EXCEPT !.pc = "create"])
    /\ UNCHANGED <<instance, resolvers, lists, cached, env, subscribers, exc, outcome, last, pre, log>>

\* the second `if cls._instance is None:`, under the lock
NewRecheck(t) ==
    /\ At(t, "__new__", "recheck")
    /\ Goto(t, [Top(t) EXCEPT !.pc = IF instance[Top(t).cls] = 0 THEN "create" ELSE "exit"])
    /\ UNCHANGED <<instance, resolvers, lists, cached, env, subscribers, exc, outcome, last, pre, log>>

\* cls._instance = ConfigEnvironment(*args, **kwargs) / EventBus(): one more
\* object is constructed, empty, and the attribute names it
NewCreate(t) ==
    /\ At(t, "__new__", "create")
    /\ instance' = [instance EXCEPT ![Top(t).cls] = @ + 1]
    /\ IF Top(t).cls = "EventBusInstance"
       THEN subscribers' = <<>> /\ UNCHANGED env
       ELSE env' = EmptyMap /\ UNCHANGED subscribers
    /\ Goto(t, [Top(t) EXCEPT !.pc = "exit"])
    /\ UNCHANGED <<resolvers, lists, cached, exc, outcome, last, pre, log>>

\* the with statement is left and the lock released
NewExit(t) ==
    /\ At(t, "__new__", "exit")
    /\ Goto(t, [Top(t) EXCEPT !.pc = "return"])
    /\ UNCHANGED <<instance, resolvers, lists, cached, env, subscribers, exc, outcome, last, pre, log>>

\* return cls._instance
NewReturn(t) ==
    /\ At(t, "__new__", "return")
    /\ stack' = [stack EXCEPT ![t] = <<>>]
    /\ last' = [last EXCEPT ![t] = [op |-> "new", cls |-> Top(t).cls,
                                     obj |-> instance[Top(t).cls],
                                     entered |-> Top(t).entered]]
    /\ outcome' = [outcome EXCEPT ![t] = "returned"]
    /\ UNCHANGED <<instance, resolvers, lists, cached, env, subscribers, exc, pre, log>>

\* the steps of a construction in thread t
NewStep(t) ==
    \/ NewCheck(t)
    \/ NewEnter(t)
    \/ NewRecheck(t)
    \/ NewCreate(t)
    \/ NewExit(t)
    \/ NewReturn(t)

\* a bus with two registrations, some of them async_, on which thread 1 emits
\* one ChildEvent; the other thread is the one emit may start
AsyncCallbacks == {"a", "crash"}
AsyncProfiles ==
    { [callback |-> "a", condition |-> "none", async_ |-> TRUE, once |-> FALSE],
      [callback |-> "crash", condition |-> "none", async_ |-> TRUE, once |-> FALSE],
      [callback |-> "f", condition |-> "none", async_ |-> FALSE, once |-> FALSE],
      [callback |-> "boom", condition |-> "none", async_ |-> FALSE, once |-> FALSE] }

AsyncRegistrations ==
    [profile : AsyncProfiles, etype : {"Event", "ChildEvent", "GrandChildEvent"},
     priority : Priorities]

InitAsync ==
    /\ InitCommon
    /\ instance = Constructed
    /\ resolvers = <<>>
    /\ \E a, b \in AsyncRegistrations : subscribers = Registered(a, b)
    /\ pre = [resolvers |-> <<>>, cache |-> <<>>, env |-> EmptyMap,
              subscribers |-> subscribers]

NextAsync ==
    \/ DispatchEmit(1)
    \/ \E t \in Threads : CallbackRun(t)
    \/ \E t \in Threads : BusStep(t)

SpecAsync == InitAsync /\ [][NextAsync]_vars

\* a PropertyDict on which merge is called with each none_mode, or with none
\* given: trees over the keys a, b with dicts over x, y under a
Leaves == {None, Num(1), Num(2)}
InnerMaps ==
    UNION {[ks -> Leaves] : ks \in SUBSET {K("x"), K("y")}}
TreesAt(k, values) == {EmptyMap} \cup {One(k, v) : v \in values}
Trees ==
    {Join(f, g) : f \in TreesAt(K("a"), Leaves \cup {Dict(m) : m \in InnerMaps}),
                  g \in TreesAt(K("b"), {None, Num(1)})}

InitMerge ==
    /\ env \in Trees
    /\ instance = Constructed
    /\ resolvers = <<>> /\ subscribers = <<>>
    /\ lists = <<(<<>>)>> /\ cached = 1
    /\ stack = [t \in Threads |-> <<>>]
    /\ exc = [t \in Threads |-> "none"]
    /\ outcome = [t \in Threads |-> "none"]
    /\ last = [t \in Threads |-> [op |-> "none"]]
    /\ pre = NoPre
    /\ log = <<>>

\* self.merge(override) and self.merge(override, none_mode)
MergeCall(override, none_mode) ==
    /\ env' = MergeMap(env, override,
                       IF none_mode = "unset" THEN DefaultNoneMode ELSE none_mode)
    /\ last' = [last EXCEPT ![1] = [op |-> "merge", ov |-> override, mode |-> none_mode]]
    /\ pre' = [NoPre EXCEPT !.env = env]
    /\ outcome' = [outcome EXCEPT ![1] = "returned"]
    /\ UNCHANGED <<instance, resolvers, lists, cached, subscribers, stack, exc, log>>

NextMerge == \E override \in Trees, none_mode \in NoneModes \cup {"unset"} :
                 MergeCall(override, none_mode)

SpecMerge == InitMerge /\ [][NextMerge]_vars

(***************************************************************************)
(* PropertyDict.merge step by step, with getprop running in another thread *)
(***************************************************************************)
\* base[k] = v and base.pop(k, None), base being the dict at `path` of the tree
Put(m, k, v) == [x \in (DOMAIN m) \cup {k} |-> IF x = k THEN v ELSE m[x]]
Del(m, k) == [x \in (DOMAIN m) \ {k} |-> m[x]]

RECURSIVE PutAt(_, _, _, _)
PutAt(m, path, k, v) ==
    IF path = <<>> THEN Put(m, k, v)
    ELSE [m EXCEPT ![Head(path)] = Dict(PutAt(@.dv, Tail(path), k, v))]

RECURSIVE DelAt(_, _, _)
DelAt(m, path, k) ==
    IF path = <<>> THEN Del(m, k)
    ELSE [m EXCEPT ![Head(path)] = Dict(DelAt(@.dv, Tail(path), k))]

\* the dict object that hangs at `path` of the tree
RECURSIVE NodeAt(_, _)
NodeAt(m, path) ==
    IF path = <<>> THEN Dict(m) ELSE NodeAt(m[Head(path)].dv, Tail(path))

IsPrefix(p, q) == Len(p) <= Len(q) /\ SubSeq(q, 1, Len(p)) = p

\* `current` of getprop is a reference: to the dict that hangs at a path of the
\* tree (live), or to an object the tree no longer holds, or a leaf (val)
LiveAt(path) == [live |-> TRUE, path |-> path, val |-> None]
Held(v) == [live |-> FALSE, path |-> <<>>, val |-> v]
Deref(c) == IF c.live THEN NodeAt(env, c.path) ELSE c.val

Merging(t) == stack[t] # <<>> /\ stack[t][1].fn = "_merge"
Reading(t) == stack[t] # <<>> /\ stack[t][1].fn = "getprop"
\* self._lock is free
LockFree == \A t \in Threads : ~Merging(t)

MergeFrame(path, override, none_mode) ==
    [fn |-> "_merge", pc |-> "for", base |-> path, override |-> override,
     todo |-> DOMAIN override, none_mode |-> none_mode]

\* what getprop gives on the tree T for the arguments of the call
OnTree(T, call) == GetProp(Dict(T), call.key, call.default, call.raise_error, DOT)

\* the tree a merge in progress started from and the tree it ends with
TreesOfMerge(t) ==
    {pre.env, MergeMap(pre.env, last[t].ov, last[t].mode)}

\* self.merge(override, none_mode): the lock is taken and _merge(self.data,
\* override) is entered; the getprop calls in progress are told what they
\* give on the tree this merge ends with (history). A merge begins only while no getprop in
\* progress has already seen one begin.
MergeBegin(t, override, none_mode) ==
    /\ stack[t] = <<>> /\ LockFree
    /\ \A u \in Threads : Reading(u) => ~Top(u).met
    /\ stack' = [u \in Threads |->
                   IF u = t THEN <<MergeFrame(<<>>, override, none_mode)>>
                   ELSE IF Reading(u)
                   THEN <<[Top(u) EXCEPT
                             !.allowed = @ \cup
                                 {OnTree(MergeMap(env, override, none_mode), Top(u).call)},
                             !.met = TRUE]>>
                   ELSE stack[u]]
    /\ last' = [u \in Threads |->
                  IF u = t THEN [op |-> "merge", ov |-> override, mode |-> none_mode]
                  ELSE IF Reading(u) THEN last[u] ELSE [op |-> "none"]]
    /\ outcome' = [u \in Threads |-> IF Reading(u) THEN outcome[u] ELSE "none"]
    /\ pre' = [NoPre EXCEPT !.env = env]
    /\ UNCHANGED <<instance, resolvers, lists, cached, env, subscribers, exc, log>>

\* the results of the getprop calls that are over are history a step of
\* merge drops
ForgetReads ==
    /\ last' = [u \in Threads |->
                  IF Merging(u) \/ Reading(u) THEN last[u] ELSE [op |-> "none"]]
    /\ outcome' = [u \in Threads |->
                     IF Merging(u) \/ Reading(u) THEN outcome[u] ELSE "none"]

\* a getprop whose `current` is the object at `path`, or one below it, keeps
\* that object when the tree lets go of it
KeepObject(f, path) ==
    IF f.fn = "getprop" /\ f.current.live /\ IsPrefix(path, f.current.path)
    THEN [f EXCEPT !.current = Held(NodeAt(env, f.current.path))]
    ELSE f

\* one iteration of `for k, v in override.items()`
MergeStep(t) ==
    /\ At(t, "_merge", "for") /\ Top(t).todo # {}
    /\ \E k \in Top(t).todo :
        LET f    == Top(t)
            v    == f.override[k]
            base == NodeAt(env, f.base).dv
            on   == [f EXCEPT !.todo = @ \ {k}]
            Rest(s) == [u \in Threads |->
                            IF u = t THEN s
                            ELSE [i \in 1..Len(stack[u]) |->
                                     KeepObject(stack[u][i], f.base \o <<k>>)]]
        IN  IF IsNone(v) /\ f.none_mode = "ignore"
            THEN /\ Goto(t, on)
                 /\ UNCHANGED env
            ELSE IF IsNone(v) /\ f.none_mode = "delete"
            THEN /\ env' = DelAt(env, f.base, k)
                 /\ stack' = Rest(ReplaceTop(stack[t], on))
            ELSE IF k \in DOMAIN base /\ IsDict(base[k]) /\ IsDict(v)
            THEN /\ stack' = [stack EXCEPT ![t] =
                                 Append(ReplaceTop(@, on),
                                        MergeFrame(f.base \o <<k>>, v.dv, f.none_mode))]
                 /\ UNCHANGED env
            ELSE /\ env' = PutAt(env, f.base, k, v)
                 /\ stack' = Rest(ReplaceTop(stack[t], on))
    /\ ForgetReads
    /\ UNCHANGED <<instance, resolvers, lists, cached, subscribers, exc, pre, log>>

\* the loop of _merge is over; the outermost return releases the lock
MergeReturn(t) ==
    /\ At(t, "_merge", "for") /\ Top(t).todo = {}
    /\ stack' = [stack EXCEPT ![t] = DropTop(@)]
    /\ outcome' = [u \in Threads |->
                     IF u = t THEN (IF Len(stack[t]) = 1 THEN "returned" ELSE outcome[t])
                     ELSE IF Reading(u) THEN outcome[u] ELSE "none"]
    /\ last' = [u \in Threads |->
                  IF u = t \/ Reading(u) THEN last[u] ELSE [op |-> "none"]]
    /\ UNCHANGED <<instance, resolvers, lists, cached, env, subscribers, exc, pre, log>>

\* getprop is over with the result res
GetDone(t, call, res) ==
    /\ stack' = [stack EXCEPT ![t] = <<>>]
    /\ last' = [last EXCEPT ![t] = [call EXCEPT !.res = res]]
    /\ outcome' = [outcome EXCEPT ![t] = IF res.ok THEN "returned" ELSE "KeyError"]

\* self.getprop(key, default, raise_error=...) down to `current = self.data`;
\* allowed is what the call gives on the trees before and after the merges
\* that run while the call runs (history)
GetBegin(t, key, default, raise_error) ==
    LET parts    == Split(key, DOT)
        key_args == [i \in 1..Len(parts) |-> Strip(parts[i])]
        trees    == IF LockFree THEN {env}
                    ELSE UNION {TreesOfMerge(u) : u \in {w \in Threads : Merging(w)}}
        args     == [op |-> "getprop", key |-> key, default |-> default,
                     raise_error |-> raise_error]
        allowed  == {OnTree(T, args) : T \in trees}
        call     == [op |-> "getprop", key |-> key, default |-> default,
                     raise_error |-> raise_error, allowed |-> allowed, res |-> KeyError]
    IN  /\ stack[t] = <<>>
        /\ IF key = <<>> \/ \E i \in 1..Len(key_args) : key_args[i] = <<>>
           THEN GetDone(t, call, Miss(default, raise_error))
           ELSE /\ stack' = [stack EXCEPT ![t] =
                                <<[fn |-> "getprop", pc |-> "for", call |-> call,
                                   key_args |-> key_args, current |-> LiveAt(<<>>),
                                   allowed |-> allowed, met |-> FALSE]>>]
                /\ last' = [last EXCEPT ![t] = [op |-> "none"]]
                /\ outcome' = [outcome EXCEPT ![t] = "none"]
        /\ UNCHANGED <<instance, resolvers, lists, cached, env, subscribers, exc, pre, log>>

\* one iteration of `for part in key_args`
GetStep(t) ==
    /\ At(t, "getprop", "for") /\ Top(t).key_args # <<>>
    /\ LET f       == Top(t)
           part    == Head(f.key_args)
           current == Deref(f.current)
           call    == [f.call EXCEPT !.allowed = f.allowed]
       IN  IF IsDict(current) /\ part \in DOMAIN current.dv
           THEN /\ Goto(t, [f EXCEPT
                              !.key_args = Tail(@),
                              !.current = IF f.current.live /\ IsDict(current.dv[part])
                                          THEN LiveAt(f.current.path \o <<part>>)
                                          ELSE Held(current.dv[part])])
                /\ UNCHANGED <<last, outcome>>
           ELSE GetDone(t, call, Miss(f.call.default, f.call.raise_error))
    /\ UNCHANGED <<instance, resolvers, lists, cached, env, subscribers, exc, pre, log>>

\* return default if current is None else current
GetReturn(t) ==
    /\ At(t, "getprop", "for") /\ Top(t).key_args = <<>>
    /\ LET f       == Top(t)
           current == Deref(f.current)
       IN  GetDone(t, [f.call EXCEPT !.allowed = f.allowed],
                   Ret(IF IsNone(current) THEN f.call.default ELSE current))
    /\ UNCHANGED <<instance, resolvers, lists, cached, env, subscribers, exc, pre, log>>

\* the paths asked for: a, a.x and a path with an empty segment
ReadKeys == {<<"a">>, <<"a", DOT, "x">>, <<"a", DOT>>}

\* the trees the PropertyDict starts with hold 1 under a; the mappings merged
\* into it hold 2 and nulls under a
Stored ==
    {T \in Trees : DOMAIN T \subseteq {K("a")} /\ \A k \in DOMAIN T :
        IF IsDict(T[k]) THEN \A j \in DOMAIN T[k].dv : T[k].dv[j] = Num(1)
        ELSE T[k] = Num(1)}
Incoming ==
    {T \in Trees : DOMAIN T \subseteq {K("a")} /\ \A k \in DOMAIN T :
        IF IsDict(T[k]) THEN \A j \in DOMAIN T[k].dv : T[k].dv[j] # Num(1)
        ELSE T[k] # Num(1)}

InitRead ==
    /\ env \in Stored
    /\ instance = Constructed
    /\ resolvers = <<>> /\ subscribers = <<>>
    /\ lists = <<(<<>>)>> /\ cached = 1
    /\ stack = [t \in Threads |-> <<>>]
    /\ exc = [t \in Threads |-> "none"]
    /\ outcome = [t \in Threads |-> "none"]
    /\ last = [t \in Threads |-> [op |-> "none"]]
    /\ pre = NoPre
    /\ log = <<>>

\* thread 1 merges, thread 2 reads
NextRead ==
    \/ \E override \in Incoming, none_mode \in NoneModes :
          MergeBegin(1, override, none_mode)
    \/ MergeStep(1)
    \/ MergeReturn(1)
    \/ \E key \in ReadKeys, raise_error \in BOOLEAN : GetBegin(2, key, None, raise_error)
    \/ GetStep(2)
    \/ GetReturn(2)

SpecRead == InitRead /\ [][NextRead]_vars

\* two threads that construct the proxies, the first time and again, and use
\* the bus and the environment they have been given
SingleProfile == [callback |-> "f", condition |-> "none", async_ |-> FALSE, once |-> FALSE]
SingleOverride == One(K("a"), Num(1))
MaxLog == 2

InitSingle ==
    /\ InitCommon
    /\ instance \in [Proxies -> {0, 1}]
    /\ resolvers = <<>>
    /\ subscribers = <<>>
    /\ pre = NoPre

HasBus == instance["EventBusInstance"] # 0
HasEnvironment == instance["ConfigEnvironmentInstance"] # 0

\* the steps thread t takes inside a call
StepSingle(t) ==
    \/ NewStep(t)
    \/ EmitCollect(t)
    \/ EmitNext(t)
    \/ EmitAfter(t)
    \/ EmitRemove(t)
    \/ CallbackRun(t)
    \/ MergeStep(t)
    \/ MergeReturn(t)

NextSingle ==
    \/ \E t \in Threads, cls \in Proxies : CallNew(t, cls)
    \/ \E t \in Threads :
           HasBus /\ subscribers = <<>> /\ Subscribe(t, "Event", SingleProfile, 0)
    \/ \E t \in Threads : HasBus /\ Len(log) < MaxLog /\ CallEmit(t, "Event")
    \/ \E t \in Threads :
           HasEnvironment /\ MergeBegin(t, SingleOverride, DefaultNoneMode)
    \/ \E t \in Threads : StepSingle(t)

SpecSingle == InitSingle /\ [][NextSingle]_vars

(***************************************************************************)
(* PropertyDict.getprop called once on a tree, with every argument         *)
(***************************************************************************)
\* the characters of the paths, and the paths
KeyAlphabet == {"a", "x", DOT, BLANK}
Keys == UNION {[1..n -> KeyAlphabet] : n \in 0..MaxKeyLen}
Delimiters == {DOT, BLANK}
Defaults == {None, Num(0)}

\* self.data: the trees with the key a, and a PropertyDict whose data
\* attribute was rebound to something that is no dict
GetTrees == {T \in Trees : DOMAIN T \subseteq {K("a")}}
Roots ==
    {[env |-> T, data |-> Dict(T)] : T \in GetTrees}
        \cup {[env |-> EmptyMap, data |-> v] : v \in {None, Num(1)}}

GetCalls ==
    [op : {"getprop"}, data : {r.data : r \in Roots}, key : Keys, default : Defaults,
     raise_error : BOOLEAN, delimiter : Delimiters]

InitGet ==
    /\ \E r \in Roots, call \in GetCalls :
          /\ call.data = r.data
          /\ env = r.env
          /\ last = [t \in Threads |-> IF t = 1 THEN call ELSE [op |-> "none"]]
    /\ instance = Constructed
    /\ resolvers = <<>> /\ subscribers = <<>>
    /\ lists = <<(<<>>)>> /\ cached = 1
    /\ stack = [t \in Threads |-> <<>>]
    /\ exc = [t \in Threads |-> "none"]
    /\ outcome = [t \in Threads |-> "none"]
    /\ pre = NoPre
    /\ log = <<>>

\* self.getprop(key, default, raise_error=raise_error, delimiter=delimiter)
GetPropCall ==
    /\ outcome[1] = "none"
    /\ LET call == last[1]
           res  == GetProp(call.data, call.key, call.default, call.raise_error,
                           call.delimiter)
       IN  /\ last' = [last EXCEPT ![1] =
                         [op |-> "getprop", data |-> call.data, key |-> call.key,
                          default |-> call.default, raise_error |-> call.raise_error,
                          delimiter |-> call.delimiter, res |-> res]]
           /\ outcome' = [outcome EXCEPT ![1] = IF res.ok THEN "returned" ELSE "raised"]
    /\ UNCHANGED <<instance, resolvers, lists, cached, env, subscribers, stack, exc, pre, log>>

NextGet == GetPropCall

SpecGet == InitGet /\ [][NextGet]_vars

(***************************************************************************)
(* as_dataclass: a value is None, Num, Str, List, a mapping with its items *)
(* in insertion order, or an instance of a dataclass; a result is          *)
(* [ok |-> TRUE, val |-> v] or, when TypeError is raised, TypeError        *)
(***************************************************************************)
\* a dict as Python keeps it: the items in insertion order, the keys distinct
Mapping(items) == [t |-> "mapping", items |-> items]
Item(k, v) == [k |-> k, v |-> v]
\* cls(**kwargs)
Inst(cls, kw) == [t |-> "inst", cls |-> cls, kw |-> kw]

\* the annotations: int, str, float, a dataclass, List[X], Dict[str, X] and
\* Optional[X]
TInt == [k |-> "int"]
TStr == [k |-> "str"]
TFloat == [k |-> "float"]
TData(name) == [k |-> "dataclass", name |-> name]
TList(x) == [k |-> "List", arg |-> x]
TDict(x) == [k |-> "Dict", arg |-> x]
TOptional(x) == [k |-> "Union", arg |-> x]

UpperCase ==
    <<"A", "B", "C", "D", "E", "F", "G", "H", "I", "J", "K", "L", "M",
      "N", "O", "P", "Q", "R", "S", "T", "U", "V", "W", "X", "Y", "Z">>
LowerCase ==
    <<"a", "b", "c", "d", "e", "f", "g", "h", "i", "j", "k", "l", "m",
      "n", "o", "p", "q", "r", "s", "t", "u", "v", "w", "x", "y", "z">>
Swap(c, from, to) ==
    IF \E j \in 1..Len(from) : from[j] = c
    THEN to[CHOOSE j \in 1..Len(from) : from[j] = c]
    ELSE c
\* str.lower() and str.upper()
Lower(s) == [i \in 1..Len(s) |-> Swap(s[i], UpperCase, LowerCase)]
Upper(s) == [i \in 1..Len(s) |-> Swap(s[i], LowerCase, UpperCase)]

Digits == <<"0", "1", "2", "3", "4", "5", "6", "7", "8", "9">>
IsDigit(c) == \E j \in 1..Len(Digits) : Digits[j] = c
DigitValue(c) == (CHOOSE j \in 1..Len(Digits) : Digits[j] = c) - 1
RECURSIVE DecimalValue(_)
DecimalValue(d) ==
    IF d = <<>> THEN 0
    ELSE 10 * DecimalValue(SubSeq(d, 1, Len(d) - 1)) + DigitValue(d[Len(d)])

\* _str_to_int inside the try of the converter call: int(v) of a string, with
\* blanks around it and a sign before the digits; its ValueError comes out as
\* TypeError
StrToInt(s) ==
    LET b      == Strip(s)
        signed == b # <<>> /\ b[1] \in {"-", "+"}
        d      == IF signed THEN Tail(b) ELSE b
    IN  IF d = <<>> \/ \E i \in 1..Len(d) : ~IsDigit(d[i]) THEN TypeError
        ELSE Ret(Num(IF signed /\ b[1] = "-" THEN 0 - DecimalValue(d)
                     ELSE DecimalValue(d)))

\* str(v) of an int
RECURSIVE DigitsOf(_)
DigitsOf(n) ==
    IF n < 10 THEN <<Digits[n + 1]>>
    ELSE DigitsOf(n \div 10) \o <<Digits[(n % 10) + 1]>>
IntToStr(n) == IF n < 0 THEN <<"-">> \o DigitsOf(0 - n) ELSE DigitsOf(n)

\* the dataclasses of the tests: the fields with their annotations and defaults
\* ("MISSING": none, "None": = None, "dict": field(default_factory=dict))
Field(name, type, default) == [name |-> name, type |-> type, default |-> default]
F_city == <<"c", "i", "t", "y">>
F_zipcode == <<"z", "i", "p", "c", "o", "d", "e">>
F_location == <<"l", "o", "c", "a", "t", "i", "o", "n">>
F_name == <<"n", "a", "m", "e">>
F_branch_addresses == <<"b", "r", "a", "n", "c", "h", "_", "a", "d", "d", "r", "e", "s", "s", "e", "s">>
F_id == <<"i", "d">>
F_address == <<"a", "d", "d", "r", "e", "s", "s">>
F_company == <<"c", "o", "m", "p", "a", "n", "y">>
fields(c) ==
    CASE c = "Address" ->
           <<Field(F_city, TStr, "MISSING"),
             Field(F_zipcode, TInt, "MISSING"),
             Field(F_location, TOptional(TDict(TFloat)), "None")>>
      [] c = "Company" ->
           <<Field(F_name, TStr, "MISSING"),
             Field(F_branch_addresses, TDict(TData("Address")), "dict")>>
      [] c = "Employee" ->
           <<Field(F_id, TInt, "MISSING"),
             Field(F_address, TData("Address"), "MISSING"),
             Field(F_company, TOptional(TData("Company")), "None")>>
FieldNames(c) == {fields(c)[i].name : i \in 1..Len(fields(c))}

\* isinstance(value, field_type): "yes", "no", or "TypeError" for a subscripted
\* generic; a Union of classes is checked member by member from Python 3.10
\* on (union_checks) and is refused like a generic before
RECURSIVE IsInstance(_, _, _)
IsInstance(value, field_type, union_checks) ==
    CASE field_type.k = "int" -> IF value.t = "num" THEN "yes" ELSE "no"
      [] field_type.k = "str" -> IF value.t = "str" THEN "yes" ELSE "no"
      [] field_type.k = "float" -> "no"
      [] field_type.k = "dataclass" ->
           IF value.t = "inst" /\ value.cls = field_type.name THEN "yes" ELSE "no"
      [] field_type.k \in {"List", "Dict"} -> "TypeError"
      [] field_type.k = "Union" ->
           IF union_checks THEN IsInstance(value, field_type.arg, union_checks)
           ELSE "TypeError"

\* type_registry: (int, str) -> _str_to_int, (str, int) -> str
HasConverter(field_type, value) ==
    \/ field_type.k = "int" /\ value.t = "str"
    \/ field_type.k = "str" /\ value.t = "num"
Converted(field_type, value) ==
    IF field_type.k = "int" THEN StrToInt(value.sv) ELSE Ret(Str(IntToStr(value.nv)))

\* data_map: the items keyed by k.lower(), a later item replacing an earlier
\* one of the same lowered key; the data itself when ignore_case is off
RECURSIVE DataMap(_, _)
DataMap(items, ignore_case) ==
    IF items = <<>> THEN EmptyMap
    ELSE LET before == DataMap(SubSeq(items, 1, Len(items) - 1), ignore_case)
             it     == items[Len(items)]
             key    == IF ignore_case THEN Lower(it.k) ELSE it.k
         IN  [x \in (DOMAIN before) \cup {key} |-> IF x = key THEN it.v ELSE before[x]]

\* field.default_factory(), or the default the constructor fills in
DefaultOf(field) == IF field.default = "dict" THEN Mapping(<<>>) ELSE None

RECURSIVE ConvertValue(_, _, _, _)
RECURSIVE ConvertList(_, _, _, _)
RECURSIVE ConvertItems(_, _, _, _)
RECURSIVE Kwargs(_, _, _, _)
RECURSIVE AsDataclass(_, _, _, _)

\* [_convert_value(item_type, item) for item in value]
ConvertList(item_type, q, ignore_case, union_checks) ==
    IF q = <<>> THEN Ret(<<>>)
    ELSE LET r == ConvertValue(item_type, q[1], ignore_case, union_checks)
             s == ConvertList(item_type, Tail(q), ignore_case, union_checks)
         IN  IF ~r.ok THEN r ELSE IF ~s.ok THEN s ELSE Ret(<<r.val>> \o s.val)

\* {k: _convert_value(val_type, v) for k, v in value.items()}
ConvertItems(val_type, items, ignore_case, union_checks) ==
    IF items = <<>> THEN Ret(<<>>)
    ELSE LET r == ConvertValue(val_type, items[1].v, ignore_case, union_checks)
             s == ConvertItems(val_type, Tail(items), ignore_case, union_checks)
         IN  IF ~r.ok THEN r ELSE IF ~s.ok THEN s
             ELSE Ret(<<Item(items[1].k, r.val)>> \o s.val)

\* _convert_value(field_type, value)
ConvertValue(field_type, value, ignore_case, union_checks) ==
    IF IsNone(value) THEN Ret(None)
    ELSE LET isinstance == IsInstance(value, field_type, union_checks)
         IN  IF isinstance = "TypeError" THEN TypeError
             ELSE IF isinstance = "yes" THEN Ret(value)
             ELSE IF HasConverter(field_type, value) THEN Converted(field_type, value)
             ELSE IF field_type.k = "Union" THEN
                 LET r == ConvertValue(field_type.arg, value, ignore_case, union_checks)
                 IN  IF r.ok THEN r ELSE Ret(value)
             ELSE IF field_type.k = "List" THEN
                 IF value.t # "list" THEN TypeError
                 ELSE LET r == ConvertList(field_type.arg, value.lv, ignore_case,
                                           union_checks)
                      IN  IF r.ok THEN Ret(List(r.val)) ELSE r
             ELSE IF field_type.k = "Dict" THEN
                 IF value.t # "mapping" THEN TypeError
                 ELSE LET r == ConvertItems(field_type.arg, value.items, ignore_case,
                                            union_checks)
                      IN  IF r.ok THEN Ret(Mapping(r.val)) ELSE r
             ELSE IF field_type.k = "dataclass" THEN
                 IF value.t # "mapping" THEN TypeError
                 ELSE AsDataclass(field_type, value, ignore_case, union_checks)
             ELSE Ret(value)

\* the loop over the fields: kwargs, with the declared default where the
\* constructor is left to fill it in
Kwargs(fs, data_map, ignore_case, union_checks) ==
    IF fs = <<>> THEN Ret(EmptyMap)
    ELSE LET field == fs[1]
             key   == IF ignore_case THEN Lower(field.name) ELSE field.name
             r     == IF key \notin DOMAIN data_map \/ IsNone(data_map[key])
                      THEN Ret(DefaultOf(field))
                      ELSE ConvertValue(field.type, data_map[key], ignore_case,
                                        union_checks)
             s     == Kwargs(Tail(fs), data_map, ignore_case, union_checks)
         IN  IF ~r.ok THEN r ELSE IF ~s.ok THEN s
             ELSE Ret(Join(One(field.name, r.val), s.val))

\* _as_dataclass(cls_inner, data_inner)
AsDataclass(cls_inner, data_inner, ignore_case, union_checks) ==
    IF cls_inner.k = "List" THEN
        IF IsNone(data_inner) THEN Ret(List(<<>>))
        ELSE IF data_inner.t # "list" THEN TypeError
        ELSE LET r == ConvertList(cls_inner.arg, data_inner.lv, ignore_case,
                                  union_checks)
             IN  IF r.ok THEN Ret(List(r.val)) ELSE r
    ELSE IF cls_inner.k = "Dict" THEN
        IF IsNone(data_inner) THEN Ret(Mapping(<<>>))
        ELSE IF data_inner.t # "mapping" THEN TypeError
        ELSE LET r == ConvertItems(cls_inner.arg, data_inner.items, ignore_case,
                                   union_checks)
             IN  IF r.ok THEN Ret(Mapping(r.val)) ELSE r
    ELSE IF cls_inner.k = "Union" THEN
        LET r == ConvertValue(cls_inner.arg, data_inner, ignore_case, union_checks)
        IN  IF r.ok THEN r ELSE Ret(data_inner)
    ELSE IF cls_inner.k # "dataclass" THEN TypeError
    ELSE IF data_inner.t # "mapping" THEN TypeError
    ELSE LET r == Kwargs(fields(cls_inner.name), DataMap(data_inner.items, ignore_case),
                         ignore_case, union_checks)
         IN  IF r.ok THEN Ret(Inst(cls_inner.name, r.val)) ELSE r

\* as_dataclass(cls, data, ignore_case)
as_dataclass(cls, data, ignore_case, union_checks) ==
    AsDataclass(cls, data, ignore_case, union_checks)

\* the inputs of as_dataclass: mappings for the dataclasses of the tests with
\* their keys in lower, Title and UPPER case and in every order, values of the
\* right and of the wrong kind, and lists of such mappings
Title(s) == IF s = <<>> THEN s ELSE Upper(SubSeq(s, 1, 1)) \o SubSeq(s, 2, Len(s))
Variants(s) == {s, Title(s), Upper(s)}
ZipValues == {Num(5), Str(<<"1", "2">>), Str(<<BLANK, "7">>), Str(<<"x">>), None}
Located == Mapping(<<Item(<<"l", "a", "t">>, Num(1))>>)
AddressItems ==
    {Item(k, Str(<<"A">>)) : k \in Variants(F_city)}
        \cup {Item(k, v) : k \in Variants(F_zipcode), v \in ZipValues}
        \cup {Item(F_location, v) : v \in {None, Located}}

\* the mappings of at most n of the items, no key twice
MappingsOf(items, n) ==
    {Mapping(q) : q \in {q \in UNION {[1..m -> items] : m \in 0..n} :
                            \A i, j \in 1..Len(q) : i # j => q[i].k # q[j].k}}
AddressMaps == MappingsOf(AddressItems, MaxItems)

NestedAddressMaps ==
    {Mapping(<<Item(Title(F_city), Str(<<"A">>)), Item(Upper(F_zipcode), Str(<<"1", "2">>))>>),
     Mapping(<<Item(F_zipcode, Num(5)), Item(F_city, Str(<<"A">>))>>),
     Mapping(<<Item(F_zipcode, Str(<<"x">>))>>)}
BranchMaps ==
    {Mapping(<<>>)} \cup {Mapping(<<Item(<<"H", "Q">>, m)>>) : m \in NestedAddressMaps}
CompanyMaps ==
    {Mapping(<<Item(kn, Str(<<"c">>))>>) : kn \in Variants(F_name)}
        \cup {Mapping(<<Item(kn, Str(<<"c">>)), Item(kb, b)>>) :
                 kn \in Variants(F_name), kb \in Variants(F_branch_addresses),
                 b \in BranchMaps \cup {None}}
EmployeeMaps ==
    {Mapping(<<Item(ki, i), Item(ka, m)>>) :
        ki \in Variants(F_id), i \in {Num(7), Str(<<"7">>)},
        ka \in Variants(F_address), m \in NestedAddressMaps}
        \cup {Mapping(<<Item(F_company, c), Item(Upper(F_id), Str(<<"7">>)), Item(ka, m)>>) :
                 c \in CompanyMaps \cup {None}, ka \in Variants(F_address),
                 m \in NestedAddressMaps}

\* the lists of at most n of the elements
ListsOf(elements, n) == {List(q) : q \in UNION {[1..m -> elements] : m \in 0..n}}
AddressLists ==
    ListsOf(NestedAddressMaps \cup {Mapping(<<Item(F_location, Located)>>), None, Num(5)},
            MaxItems)
CompanyLists ==
    ListsOf({Mapping(<<Item(F_name, Str(<<"c">>))>>),
             Mapping(<<Item(F_name, Str(<<"c">>)),
                       Item(F_branch_addresses,
                            Mapping(<<Item(<<"H", "Q">>, Mapping(<<Item(F_city, Str(<<"A">>)),
                                                          Item(F_zipcode, Num(5))>>))>>))>>)},
            MaxItems)

DataCalls ==
    {[op |-> "as_dataclass", cls |-> c.cls, data |-> c.data, ignore_case |-> ic,
      union_checks |-> uc] :
        c \in {[cls |-> TData("Address"), data |-> d] : d \in AddressMaps \cup {None, Num(5)}}
              \cup {[cls |-> TData("Company"), data |-> d] : d \in CompanyMaps}
              \cup {[cls |-> TData("Employee"), data |-> d] : d \in EmployeeMaps}
              \cup {[cls |-> TList(TData("Address")), data |-> d] :
                       d \in AddressLists \cup {None, Mapping(<<>>)}}
              \cup {[cls |-> TList(TData("Company")), data |-> d] : d \in CompanyLists}
              \cup {[cls |-> TDict(TData("Address")), data |-> d] : d \in BranchMaps \cup {None}}
              \cup {[cls |-> TOptional(TData("Address")), data |-> d] : d \in NestedAddressMaps}
              \cup {[cls |-> TInt, data |-> Num(5)]},
        ic \in BOOLEAN, uc \in BOOLEAN}

InitData ==
    /\ \E call \in DataCalls :
          last = [t \in Threads |-> IF t = 1 THEN call ELSE [op |-> "none"]]
    /\ env = EmptyMap
    /\ instance = Constructed
    /\ resolvers = <<>> /\ subscribers = <<>>
    /\ lists = <<(<<>>)>> /\ cached = 1
    /\ stack = [t \in Threads |-> <<>>]
    /\ exc = [t \in Threads |-> "none"]
    /\ outcome = [t \in Threads |-> "none"]
    /\ pre = NoPre
    /\ log = <<>>

\* as_dataclass(cls, data, ignore_case=ignore_case)
AsDataclassCall ==
    /\ outcome[1] = "none"
    /\ LET call == last[1]
           res  == as_dataclass(call.cls, call.data, call.ignore_case, call.union_checks)
       IN  /\ last' = [last EXCEPT ![1] =
                         [op |-> "as_dataclass", cls |-> call.cls, data |-> call.data,
                          ignore_case |-> call.ignore_case,
                          union_checks |-> call.union_checks, res |-> res]]
           /\ outcome' = [outcome EXCEPT ![1] = IF res.ok THEN "returned" ELSE "raised"]
    /\ UNCHANGED <<instance, resolvers, lists, cached, env, subscribers, stack, exc, pre, log>>

NextData == AsDataclassCall

SpecData == InitData /\ [][NextData]_vars

(***************************************************************************)
(* Claims                                                                  *)
(***************************************************************************)
\* thread 1 is back from its top-level call and no other call is in progress
Back == Idle /\ outcome[1] # "none"
EnvNum(k, i) == K(k) \in DOMAIN env /\ env[K(k)] = Num(i)
PreNum(k, i) == K(k) \in DOMAIN pre.env /\ pre.env[K(k)] = Num(i)

\* the two calls of the end-to-end scenario, from the state the scenario names
BootMerged ==
    /\ Back /\ last[1].op = "merge_source" /\ last[1].res = "boot"
    /\ pre.resolvers = <<P_file>> /\ pre.cache = <<>> /\ pre.env = EmptyMap
HttpRegistered ==
    /\ Back /\ last[1].op = "register" /\ last[1].proto = P_http
    /\ pre.resolvers = <<P_file>> /\ pre.cache = <<I_more>>
    /\ PreNum("a", 1) /\ PreNum("b", 2) /\ K("c") \notin DOMAIN pre.env

\* C1: with only 'file' registered, merging the bootstrap resource returns with
\* a=1, b=2 and the cache holding exactly 'http://host/more.yml'; registering
\* 'http' afterwards leaves a=1, b=2, c=3 and an empty cache.
C1_EndToEnd ==
    /\ BootMerged =>
          /\ outcome[1] = "returned"
          /\ EnvNum("a", 1) /\ EnvNum("b", 2)
          /\ cached_imports = <<I_more>>
    /\ HttpRegistered =>
          /\ outcome[1] = "returned"
          /\ EnvNum("a", 1) /\ EnvNum("b", 2) /\ EnvNum("c", 3)
          /\ cached_imports = <<>>

\* C2: every call terminates on its own: sweeps triggered by imports found
\* during a sweep nest only finitely deep, so no call is cut short by the
\* interpreter's recursion limit.
C2_Terminates == \A t \in Threads : exc[t] # "RecursionError"

Count(kind, P(_)) == Cardinality({i \in 1..Len(log) : log[i].k = kind /\ P(log[i])})
InCache(imp) == \E i \in 1..Len(cached_imports) : cached_imports[i] = imp
Occurrences(q, imp) == Cardinality({i \in 1..Len(q) : q[i] = imp})
IsRegistered(rs, protocol) == \E i \in 1..Len(rs) : rs[i] = protocol

\* register('x', R) has returned, begun with 'x' unregistered and 'x:1' cached once
XRegistered ==
    /\ Back /\ last[1].op = "register" /\ last[1].proto = P_x
    /\ ~IsRegistered(pre.resolvers, P_x)
    /\ Occurrences(pre.cache, I_x1) = 1

\* C3: add_imports(['x:1']) with 'x' unregistered, then register('x', R):
\* exactly one R.resolve('1'), exactly one merge of its data, and 'x:1' is
\* gone from the cache when register returns.
C3_ResolvedOnce ==
    XRegistered =>
        /\ LET IsX1(e) == e.imp = I_x1 IN Count("resolve", IsX1) = 1
        /\ LET IsOne(e) == e.res = "one" IN Count("merge", IsOne) = 1
        /\ ~InCache(I_x1)

\* an entry the registered resolvers could resolve
Resolvable(imp) ==
    /\ Contains(imp, COLON)
    /\ IsRegistered(resolvers, SplitOnce(imp, COLON)[1])

\* C4: when a top-level merge_source, add_imports or register call returns, no
\* cached entry names a registered protocol.
C4_Fixpoint ==
    Back => \A i \in 1..Len(cached_imports) : ~Resolvable(cached_imports[i])

\* add_imports(['http:bad.yml', 'http://host/more.yml']) has returned, begun
\* with 'http' registered and an empty cache; the load() of bad.yml raises
BadAndMoreAdded ==
    /\ Back /\ last[1].op = "add_imports" /\ last[1].imps = <<I_bad, I_more>>
    /\ IsRegistered(pre.resolvers, P_http)
    /\ pre.cache = <<>> /\ K("c") \notin DOMAIN pre.env

\* C7: a load() that raises during a sweep contributes nothing and stops
\* neither the other imports of that sweep ('http://host/more.yml' is merged,
\* c=3) nor the enclosing call.
C7_LoadFailureContained ==
    BadAndMoreAdded =>
        /\ outcome[1] = "returned"
        /\ EnvNum("c", 3)
        /\ LET IsBad(e) == e.res = "bad" IN Count("merge", IsBad) = 0

NoColonStrings == {I_jas, I_empty}
NeverResolved(imp) == LET Is(e) == e.imp = imp IN Count("resolve", Is) = 0

\* C5: an import string without ':' that is in the cache is never resolved and
\* is still in the cache after every later step of register and add_imports.
C5_NoColonStays ==
    [][\A imp \in NoColonStrings :
          InCache(imp) => (InCache(imp))' /\ (NeverResolved(imp))']_vars

\* the same for the non-empty strings alone ('just-a-string')
NonEmptyNoColonStays ==
    [][\A imp \in NoColonStrings \ {I_empty} :
          InCache(imp) => (InCache(imp))' /\ (NeverResolved(imp))']_vars

RECURSIVE IsSubseq(_, _)
IsSubseq(a, b) ==
    IF a = <<>> THEN TRUE
    ELSE IF b = <<>> THEN FALSE
    ELSE IF Head(a) = Head(b) THEN IsSubseq(Tail(a), Tail(b))
    ELSE IsSubseq(a, Tail(b))

RECURSIVE Others(_, _)
\* the entries of q that name a protocol other than p
Others(q, p) ==
    IF q = <<>> THEN <<>>
    ELSE (IF Contains(Head(q), COLON) /\ SplitOnce(Head(q), COLON)[1] # p
          THEN <<Head(q)>> ELSE <<>>) \o Others(Tail(q), p)

\* C6: the assignment that ends a sweep for protocol p keeps every cached entry
\* naming another protocol, unchanged and in the same relative order.
C6_OthersCarried ==
    [][\A t \in Threads :
          (stack[t] # <<>> /\ Top(t).fn = "on_register_resolver" /\ cached' # cached)
              => IsSubseq(Others(cached_imports, Top(t).proto), cached_imports')]_vars

(***************************************************************************)
(* Claims about concurrent callers, under SpecConc                         *)
(***************************************************************************)
\* both threads have made their call and are back
BothBack == Idle /\ \A t \in Threads : outcome[t] # "none"

\* the threads whose call was add_imports([imp])
Adders(imp) ==
    {t \in Threads : last[t].op = "add_imports" /\ last[t].imps = <<imp>>}

\* how often the sweeps resolved imp
Resolves(imp) == Count("resolve", LAMBDA e : e.imp = imp)

EntryKept == (BothBack /\ Adders(I_y9) # {}) => InCache(I_y9)
ResolvedPerAdd == BothBack => Resolves(I_more) <= Cardinality(Adders(I_more))

\* C8: the registry and the cache are mutated under an exclusive lock, so that
\* when add_imports and a sweep, or two sweeps, run in different threads, no
\* entry appended by one thread is lost ('y:9', whose protocol is never
\* registered, is still cached) and no entry is resolved more often than it
\* was added.
C8_LockedMutation == EntryKept /\ ResolvedPerAdd

(***************************************************************************)
(* Claims about the bus, under SpecBus                                     *)
(***************************************************************************)
\* emit(event) of thread 1 has returned
Emitted == Back /\ last[1].op = "emit"

\* the callbacks the dispatch invoked or started, in order
Invoked == SelectSeq(log, LAMBDA e : e.k \in {"invoke", "start"})

\* the subscribers registered when emit began that the event matches and whose
\* predicate accepts it
Matching ==
    {sub \in AllSubscribers(pre.subscribers) :
        /\ IsSubclass(last[1].ev, sub.event_type)
        /\ (sub.condition = "none" \/ ConditionHolds(sub.condition, last[1].ev))}

\* C9: emit invokes every subscriber registered for the event's own type and
\* for each of its supertypes, in descending priority order across the union.
C9_SupertypesByPriority ==
    Emitted =>
        /\ {Invoked[i].sub : i \in 1..Len(Invoked)} = Matching
        /\ Len(Invoked) = Cardinality(Matching)
        /\ \A i, j \in 1..Len(Invoked) :
               i < j => Invoked[i].sub.priority >= Invoked[j].sub.priority

\* a GrandChildEvent reached subscribers of two classes, the one registered for
\* the superclass first because of its higher priority
C9_Witness ==
    /\ Emitted /\ last[1].ev = "GrandChildEvent"
    /\ Len(Invoked) = 2
    /\ Invoked[1].sub.event_type = "Event" /\ Invoked[1].sub.priority = 10
    /\ Invoked[2].sub.event_type = "GrandChildEvent" /\ Invoked[2].sub.priority = 0
    /\ Invoked[1].sub.seq > Invoked[2].sub.seq

\* C10: subscribers of equal priority that match the event are invoked in the
\* order in which they were registered, also across event types.
C10_TiesByRegistration ==
    Emitted =>
        \A i, j \in 1..Len(Invoked) :
            (i < j /\ Invoked[i].sub.priority = Invoked[j].sub.priority)
                => Invoked[i].sub.seq < Invoked[j].sub.seq

(***************************************************************************)
(* Claims about once, failing and re-entrant callbacks, under SpecDispatch *)
(***************************************************************************)
\* how often the dispatches so far invoked a subscriber
Invocations(sub) ==
    Cardinality({i \in 1..Len(log) : log[i].k \in {"invoke", "start"} /\ log[i].sub = sub})

\* the once=True subscribers registered on the bus at the start
OnceRegistered == {sub \in AllSubscribers(pre.subscribers) : sub.once}

\* C11: a subscriber registered with once=True is invoked at most once over all
\* the emits made, whether they follow each other, are made from inside a
\* callback of the same dispatch, or are made by two threads at the same time;
\* and it is gone from the bus once the emits are over.
C11_OnceInvokedOnce ==
    \A sub \in OnceRegistered :
        /\ Invocations(sub) <= 1
        /\ (Idle /\ Invocations(sub) = 1) => sub \notin AllSubscribers(subscribers)

\* C12: when one callback is registered twice for one event type and one of the
\* registrations is once=True, the other registration is still on the bus after
\* the once registration has fired and been removed.
C12_OtherRegistrationKept ==
    \A a, b \in AllSubscribers(pre.subscribers) :
        ( /\ a.once /\ ~b.once
          /\ a.callback = b.callback /\ a.event_type = b.event_type
          /\ Idle /\ Invocations(a) >= 1 )
            => b \in AllSubscribers(subscribers)

(***************************************************************************)
(* Further claims about the bus, under SpecBus                             *)
(***************************************************************************)
\* the positions in Invoked of the callbacks that raise
Raisers == {i \in 1..Len(Invoked) : CallbackRaises(Invoked[i].sub.callback)}
Caught == SelectSeq(log, LAMBDA e : e.k = "caught")

\* C13: when a synchronous callback raises during emit, the error is caught,
\* every other matching subscriber is still invoked, those of the same or
\* lower priority after it in order, and emit returns normally.
C13_RaiseDoesNotInterrupt ==
    (Emitted /\ Raisers # {}) =>
        /\ outcome[1] = "returned" /\ exc[1] = "none"
        /\ Len(Caught) = Cardinality(Raisers)
        /\ \A sub \in Matching : \E j \in 1..Len(Invoked) : Invoked[j].sub = sub
        /\ \A i \in Raisers : \A j \in 1..Len(Invoked) :
               i < j => Invoked[j].sub.priority <= Invoked[i].sub.priority

\* a raising subscriber ran first and an ordinary one of lower priority after it
C13_Witness ==
    /\ Emitted /\ outcome[1] = "returned"
    /\ Len(Invoked) = 2 /\ Len(Caught) = 1
    /\ Invoked[1].sub.callback = "boom" /\ Invoked[1].sub.priority = 10
    /\ Invoked[2].sub.callback = "f" /\ Invoked[2].sub.priority = 0

(***************************************************************************)
(* Claims about async_ subscribers, under SpecAsync                        *)
(***************************************************************************)
\* emit has returned to thread 1, whatever the started thread is doing
EmitterBack == stack[1] = <<>> /\ outcome[1] # "none"
Starts(sub) == Cardinality({i \in 1..Len(log) : log[i].k = "start" /\ log[i].sub = sub})
OnEmitter(cb) == \E i \in 1..Len(stack[1]) : stack[1][i].fn = "callback" /\ stack[1][i].cb = cb

\* C14: for an async_ subscriber emit starts the callback at most once per
\* event, on a thread of its own and never on the emitter's stack; emit
\* returns normally whatever happens in that callback, and every other
\* matching subscriber is still invoked, once.
C14_AsyncDetached ==
    /\ \A sub \in AllSubscribers(pre.subscribers) :
           sub.async_ => Starts(sub) <= 1 /\ ~OnEmitter(sub.callback)
    /\ EmitterBack =>
           /\ outcome[1] = "returned"
           /\ \A sub \in Matching : ~sub.async_ => Invocations(sub) = 1

\* emit has returned, having started a callback that is still running and
\* invoked a synchronous subscriber after it
C14_Witness ==
    /\ EmitterBack /\ outcome[1] = "returned"
    /\ stack[2] # <<>> /\ Top(2).fn = "callback" /\ Top(2).cb = "crash"
    /\ Len(Invoked) = 2
    /\ Invoked[1].k = "start" /\ Invoked[1].sub.callback = "crash"
    /\ Invoked[2].k = "invoke" /\ Invoked[2].sub.callback = "f"

(***************************************************************************)
(* Claims about re-entrant dispatch, under SpecDispatch                    *)
(***************************************************************************)
\* thread t is the only one that has called emit so far
Alone(t) == \A u \in Threads \ {t} : outcome[u] = "none"

\* some step of the call in progress in thread t can be taken
CanStep(t) ==
    ENABLED (CallbackRun(t) \/ RelayRun(t) \/ RelayReturn(t) \/ DropRun(t) \/ BusStep(t))

\* the subscribers registered at the start that an event of class c matches
MatchingAt(c) == {sub \in AllSubscribers(pre.subscribers) : IsSubclass(c, sub.event_type)}

\* the position in Invoked of the latest invocation for the outer event
LastOuter ==
    CHOOSE i \in 0..Len(Invoked) :
        /\ i > 0 => Invoked[i].ev = "ChildEvent"
        /\ \A j \in (i + 1)..Len(Invoked) : Invoked[j].ev # "ChildEvent"

\* the emit called by relay has just returned to it
NestedReturned(t) ==
    /\ stack[t] # <<>> /\ Top(t).fn = "callback" /\ Top(t).pc = "back"

\* C15: a callback may call emit, or unsubscribe, on the bus from inside a
\* dispatch: the call in progress can always take a step, and when the nested
\* emit returns the nested event has been delivered to each of its matching
\* subscribers, in priority order, before the outer dispatch invokes its next
\* subscriber.
C15_Reentrant ==
    \A t \in Threads :
        /\ stack[t] # <<>> => CanStep(t)
        /\ (Alone(t) /\ NestedReturned(t)) =>
               /\ LastOuter > 0 /\ Invoked[LastOuter].sub.callback = "relay"
               /\ {Invoked[j].sub : j \in (LastOuter + 1)..Len(Invoked)}
                      = MatchingAt("GrandChildEvent")
               /\ Len(Invoked) - LastOuter = Cardinality(MatchingAt("GrandChildEvent"))
               /\ \A i, j \in (LastOuter + 1)..Len(Invoked) :
                      i < j => Invoked[i].sub.priority >= Invoked[j].sub.priority

\* relay, registered for ChildEvent with priority 10, emitted a GrandChildEvent
\* which reached relay and f before the outer ChildEvent reached f
C15_Witness ==
    /\ Idle /\ outcome[1] = "returned" /\ Alone(1)
    /\ Len(Invoked) = 4
    /\ Invoked[1].sub.callback = "relay" /\ Invoked[1].ev = "ChildEvent"
    /\ Invoked[2].sub.callback = "relay" /\ Invoked[2].ev = "GrandChildEvent"
    /\ Invoked[3].sub.callback = "f" /\ Invoked[3].ev = "GrandChildEvent"
    /\ Invoked[4].sub.callback = "f" /\ Invoked[4].ev = "ChildEvent"

(***************************************************************************)
(* Claims about unsubscribe, under SpecBus                                 *)
(***************************************************************************)
Unsubscribed == Idle /\ last[1].op = "unsubscribe"

\* the list registered under an event type ("no such key" reads as empty)
SubsOf(subsmap, etype) ==
    IF HasKey(subsmap, etype) THEN subsmap[KeyIndex(subsmap, etype)].subs ELSE <<>>

\* C16: unsubscribe(event_type, callback) removes every registration of that
\* callback under exactly that type and nothing else: the lists of the other
\* types, supertypes and subtypes included, and the other callbacks of that
\* type are as before and in the same order; with no such registration the
\* subscribers are unchanged.
C16_UnsubscribeExactType ==
    Unsubscribed =>
        /\ \A etype \in BusTypes \ {last[1].etype} :
               SubsOf(subscribers, etype) = SubsOf(pre.subscribers, etype)
        /\ SubsOf(subscribers, last[1].etype)
               = SelectSeq(SubsOf(pre.subscribers, last[1].etype),
                           LAMBDA sub : sub.callback # last[1].cb)
        /\ AllSubscribers(subscribers)
               = {sub \in AllSubscribers(pre.subscribers) :
                     ~(sub.event_type = last[1].etype /\ sub.callback = last[1].cb)}

\* f, registered for Event and for ChildEvent, was unsubscribed from ChildEvent
\* and is still registered for Event
C16_Witness ==
    /\ Unsubscribed /\ last[1].etype = "ChildEvent" /\ last[1].cb = "f"
    /\ Len(SubsOf(pre.subscribers, "ChildEvent")) = 1
    /\ SubsOf(pre.subscribers, "ChildEvent")[1].callback = "f"
    /\ SubsOf(subscribers, "ChildEvent") = <<>>
    /\ Len(SubsOf(subscribers, "Event")) = 1
    /\ SubsOf(subscribers, "Event")[1].callback = "f"

(***************************************************************************)
(* Claims about PropertyDict.merge, under SpecMerge                        *)
(***************************************************************************)
Merged == last[1].op = "merge"
ModeUsed == IF last[1].mode = "unset" THEN "ignore" ELSE last[1].mode

\* the mapping held at key k of f, empty when f holds none there
MapAt(f, k) == IF k \in DOMAIN f /\ IsDict(f[k]) THEN f[k].dv ELSE EmptyMap

\* the null policy at the keys of one level, and below at the keys through
\* which the incoming tree goes on
RECURSIVE NullPolicyApplied(_, _, _, _)
NullPolicyApplied(before, incoming, after, none_mode) ==
    \A k \in DOMAIN incoming :
        IF IsNone(incoming[k])
        THEN CASE none_mode = "ignore" ->
                      /\ (k \in DOMAIN after) = (k \in DOMAIN before)
                      /\ k \in DOMAIN before => after[k] = before[k]
               [] none_mode = "delete" -> k \notin DOMAIN after
               [] none_mode = "override" -> k \in DOMAIN after /\ IsNone(after[k])
        ELSE IsDict(incoming[k]) =>
                 NullPolicyApplied(MapAt(before, k), incoming[k].dv, MapAt(after, k),
                                   none_mode)

\* C17: merge applies the null policy to every key whose incoming value is
\* null: 'ignore' leaves the key as it was (present or absent), 'delete' removes
\* it at that level, 'override' stores null; 'ignore' is the policy when none
\* is given.
C17_NullPolicy ==
    Merged => NullPolicyApplied(pre.env, last[1].ov, env, ModeUsed)

\* the same for the nulls at the top level of the incoming mapping only
NullPolicyAtTop ==
    Merged =>
        \A k \in DOMAIN last[1].ov :
            IsNone(last[1].ov[k]) =>
                CASE ModeUsed = "ignore" ->
                         /\ (k \in DOMAIN env) = (k \in DOMAIN pre.env)
                         /\ k \in DOMAIN pre.env => env[k] = pre.env[k]
                  [] ModeUsed = "delete" -> k \notin DOMAIN env
                  [] ModeUsed = "override" -> k \in DOMAIN env /\ IsNone(env[k])

\* B laid over A: B's value at every key of B, except that two mappings at the
\* same key are laid over each other; A's value at every other key of A
RECURSIVE Overlay(_, _)
Overlay(A, B) ==
    [k \in (DOMAIN A) \cup (DOMAIN B) |->
        IF k \notin DOMAIN B THEN A[k]
        ELSE IF k \notin DOMAIN A THEN B[k]
        ELSE IF IsDict(A[k]) /\ IsDict(B[k]) THEN Dict(Overlay(A[k].dv, B[k].dv))
        ELSE B[k]]

\* C18: merging B into A with the 'override' policy yields B overlaid on A
\* recursively: the recursive merge where both hold mappings, B's value at
\* every other key of B, A's value at every key of A not in B.
C18_OverrideIsOverlay ==
    (Merged /\ last[1].mode = "override") => env = Overlay(pre.env, last[1].ov)

\* {a: {x: 1}, b: 1} merged with {a: {y: 2, x: None}}: y added beside x, x set
\* to null, b kept
C18_Witness ==
    /\ Merged /\ last[1].mode = "override"
    /\ pre.env = Join(One(K("a"), Dict(One(K("x"), Num(1)))), One(K("b"), Num(1)))
    /\ last[1].ov = One(K("a"), Dict(Join(One(K("x"), None), One(K("y"), Num(2)))))
    /\ env = Join(One(K("a"), Dict(Join(One(K("x"), None), One(K("y"), Num(2))))), One(K("b"), Num(1)))

\* merging C into (A merged with B), and merging (B merged with C) into A, where
\* A is the tree before the last merge and B what was merged
ThenMerge(C) == MergeMap(env, C, "override")
MergeOfMerged(C) == MergeMap(pre.env, MergeMap(last[1].ov, C, "override"), "override")

\* C19: merge with the 'override' policy is associative: for all mappings A, B,
\* C, merging C into the result of merging B into A yields the same tree as
\* merging into A the result of merging C into B.
C19_Associative ==
    (Merged /\ last[1].mode = "override") =>
        \A C \in Trees : ThenMerge(C) = MergeOfMerged(C)

\* wherever A and C both hold a mapping at a key, B holds a mapping or nothing
RECURSIVE ShapesAgree(_, _, _)
ShapesAgree(A, B, C) ==
    \A k \in (DOMAIN A) \cap (DOMAIN B) \cap (DOMAIN C) :
        (IsDict(A[k]) /\ IsDict(C[k])) =>
            /\ IsDict(B[k])
            /\ ShapesAgree(A[k].dv, B[k].dv, C[k].dv)

\* C19 (amended): merge with the 'override' policy is associative for mappings
\* A, B, C in which B holds no non-mapping value at a key where A and C both
\* hold mappings, at every level.
C19_AssociativeWhereShapesAgree ==
    (Merged /\ last[1].mode = "override") =>
        \A C \in Trees :
            ShapesAgree(pre.env, last[1].ov, C) => ThenMerge(C) = MergeOfMerged(C)

\* A = {a: {x: 1}}, B = {a: {y: 2}} merged, and C = {a: {x: 2}, b: 1}: three
\* mappings at a, and both orders give {a: {x: 2, y: 2}, b: 1}
C19_Witness ==
    /\ Merged /\ last[1].mode = "override"
    /\ pre.env = One(K("a"), Dict(One(K("x"), Num(1))))
    /\ last[1].ov = One(K("a"), Dict(One(K("y"), Num(2))))
    /\ LET C == Join(One(K("a"), Dict(One(K("x"), Num(2)))), One(K("b"), Num(1)))
       IN  /\ C \in Trees /\ ShapesAgree(pre.env, last[1].ov, C)
           /\ ThenMerge(C) = MergeOfMerged(C)
           /\ ThenMerge(C) = Join(One(K("a"), Dict(Join(One(K("x"), Num(2)), One(K("y"), Num(2))))),
                                   One(K("b"), Num(1)))

\* a getprop call is back
Read(t) == last[t].op = "getprop" /\ stack[t] = <<>>

\* C20: merge is atomic with respect to readers: a getprop running
\* concurrently with a merge in another thread never observes a tree in which
\* only part of that merge call's changes have been applied: what it returns
\* is what it returns on the tree before the merge or on the tree after it.
C20_MergeAtomicForReaders ==
    \A t \in Threads :
        Read(t) => last[t].res \in last[t].allowed

\* a merge that is over has left the tree MergeMap gives
MergeStepsGiveMergeMap ==
    (last[1].op = "merge" /\ stack[1] = <<>>) =>
        env = MergeMap(pre.env, last[1].ov, last[1].mode)

\* getprop has been called and is over
Got == last[1].op = "getprop" /\ outcome[1] # "none"
\* the segments of the path of the call, blanks around each dropped
Segments == LET parts == Split(last[1].key, last[1].delimiter)
            IN  [i \in 1..Len(parts) |-> Strip(parts[i])]
EmptySegment == last[1].key = <<>> \/ \E i \in 1..Len(Segments) : Segments[i] = <<>>

\* C21: getprop on a path with an empty segment ('a..b', '.a', 'a.') or on the
\* empty path returns the provided default whatever the tree contains,
\* including when the tree has keys that match the non-empty segments (a call
\* that asks for errors gets KeyError instead, and nothing from the tree).
C21_EmptySegmentGivesDefault ==
    (Got /\ EmptySegment) =>
        IF last[1].raise_error THEN last[1].res = KeyError
        ELSE last[1].res = Ret(last[1].default)

\* the path a..x on a tree where a.x is 1, with the default 0
C21_Witness ==
    /\ Got /\ last[1].key = <<"a", DOT, DOT, "x">> /\ last[1].delimiter = DOT
    /\ last[1].data = Dict(One(K("a"), Dict(One(K("x"), Num(1)))))
    /\ ~last[1].raise_error /\ last[1].default = Num(0)
    /\ last[1].res = Ret(Num(0))

\* the value the tree holds at the path of the call: {v}, or {} when the path
\* leads nowhere
RECURSIVE Reach(_, _)
Reach(v, args) ==
    IF args = <<>> THEN {v}
    ELSE IF IsDict(v) /\ Head(args) \in DOMAIN v.dv
         THEN Reach(v.dv[Head(args)], Tail(args))
         ELSE {}
Resolved == IF EmptySegment THEN {} ELSE Reach(last[1].data, Segments)

\* C22: for every path whose resolved value in the tree is null, getprop
\* returns the caller's default and never returns null (unless the default
\* itself is null).
C22_NullReadAsDefault ==
    (Got /\ Resolved = {None}) => last[1].res = Ret(last[1].default)

\* a.x is stored as null and is read with the default 0
C22_Witness ==
    /\ Got /\ last[1].key = <<"a", DOT, "x">> /\ last[1].delimiter = DOT
    /\ last[1].data = Dict(One(K("a"), Dict(One(K("x"), None))))
    /\ last[1].default = Num(0) /\ last[1].res = Ret(Num(0))

\* C23: getprop walks the path segment by segment and, when a segment's key
\* is absent or the current node is not a mapping, returns the default
\* (raise_error false) or raises KeyError (raise_error true); for every path,
\* including the empty path, a delimiter-only path and a non-mapping root, no
\* error other than KeyError is ever raised.
C23_MissGivesDefaultOrKeyError ==
    Got =>
        /\ last[1].res.ok \/ last[1].res = KeyError
        /\ (~EmptySegment /\ Resolved = {}) =>
               IF last[1].raise_error THEN last[1].res = KeyError
               ELSE last[1].res = Ret(last[1].default)
        /\ \A v \in Resolved : ~IsNone(v) => last[1].res = Ret(v)

\* a.x is asked of a tree where a is the number 1, with errors asked for
C23_Witness ==
    /\ Got /\ last[1].key = <<"a", DOT, "x">> /\ last[1].delimiter = DOT
    /\ last[1].data = Dict(One(K("a"), Num(1)))
    /\ last[1].raise_error /\ last[1].res = KeyError

\* a top-level merge_source of the resource res is over
SourceMerged(res) == Back /\ last[1].op = "merge_source" /\ last[1].res = res

\* C24: merge_source of a resource whose load() returns a value that is not a
\* mapping behaves as if it had loaded an empty mapping: the environment tree
\* and the import cache are unchanged and no error is raised.
C24_NonMappingLoadsNothing ==
    \A res \in SourceResources :
        (SourceMerged(res) /\ ~IsDict(Load(res))) =>
            /\ outcome[1] = "returned"
            /\ env = pre.env
            /\ cached_imports = pre.cache
            /\ \A i \in 1..Len(log) : log[i].k \in {"load", "merge"}

\* a resource that loads the number 7 was merged into an environment that
\* holds a = 1, with an entry waiting in the cache
C24_Witness ==
    /\ SourceMerged("scalar") /\ outcome[1] = "returned"
    /\ PreNum("a", 1) /\ env = pre.env
    /\ pre.cache # <<>> /\ cached_imports = pre.cache

\* the value at config.imports of what the resource loads
ImportsValue(res) == ExtractImports(Load(res))
\* a sequence of import-reference strings
IsImportList(v) == v.t = "list"
Sweeps == {i \in 1..Len(log) : log[i].k = "invoke" /\ log[i].sub.callback = "on_register_resolver"}

\* C25: when the value at config.imports in a loaded mapping is anything other
\* than a sequence of import-reference strings (for example a single string, a
\* mapping or a number), merge_source treats it as no imports: nothing is
\* appended to the cache and no sweep is triggered.
C25_OtherShapesAreNoImports ==
    \A res \in SourceResources :
        (SourceMerged(res) /\ IsDict(Load(res)) /\ ~IsImportList(ImportsValue(res))) =>
            /\ outcome[1] = "returned"
            /\ cached_imports = pre.cache
            /\ Sweeps = {}

\* the paths at which the tree under v holds a null
RECURSIVE NullPaths(_)
NullPaths(v) ==
    IF IsNone(v) THEN {<<>>}
    ELSE IF IsDict(v)
         THEN UNION {{<<k>> \o p : p \in NullPaths(v.dv[k])} : k \in DOMAIN v.dv}
         ELSE {}

\* C26: merge_source merges the loaded mapping with the 'ignore' null policy:
\* a key whose value is null in the loaded data never removes or overwrites a
\* value already present in the environment at that path.
C26_LoadedNullsIgnored ==
    [][\A t \in Threads :
          (At(t, "merge_source", "merge") /\ stack'[t] # stack[t]) =>
              \A p \in NullPaths(Top(t).data) :
                  Reach(Dict(env), p) # {} => Reach(Dict(env'), p) = Reach(Dict(env), p)]_vars

\* {a: null, b: {x: null}} was merged into {a: 1, b: {x: 2}}, which is kept
C26_Witness ==
    /\ SourceMerged("nulls") /\ outcome[1] = "returned"
    /\ pre.env = Join(One(K("a"), Num(1)), One(K("b"), Dict(One(K("x"), Num(2)))))
    /\ env = pre.env

\* the subscribers invoked for the startup event, in the order of their invocation
StartupRuns == SelectSeq(Invoked, LAMBDA e : e.ev = ApplicationStartupEvent)
RunsOf(cb) == {i \in 1..Len(StartupRuns) : StartupRuns[i].sub.callback = cb}

\* C27: when the emit of the startup event is over, the configuration
\* subscriber (priority maxsize - 1) has run exactly once, after the logger
\* subscriber (priority maxsize) and before every startup subscriber of lower
\* priority, in whatever order the subscribers were registered
C27_ConfigAfterLoggerBeforeRest ==
    (Back /\ last[1].op = "emit" /\ last[1].ev = ApplicationStartupEvent) =>
        /\ Cardinality(RunsOf("init_config_onstartup")) = 1
        /\ Cardinality(RunsOf("init_logger_onstartup")) = 1
        /\ \A i \in RunsOf("init_config_onstartup") :
              /\ \A j \in RunsOf("init_logger_onstartup") : j < i
              /\ \A j \in 1..Len(StartupRuns) :
                    StartupRuns[j].sub.priority < maxsize - 1 => i < j
        /\ \A sub \in AllSubscribers(pre.subscribers) :
              (sub.event_type = ApplicationStartupEvent /\ sub.priority < maxsize - 1)
                  => \E j \in 1..Len(StartupRuns) : StartupRuns[j].sub = sub

\* the configuration subscriber was registered before the logger subscriber
\* and after one of lower priority, and the emit is over with all three run
C27_Witness ==
    /\ Back /\ last[1].op = "emit" /\ last[1].ev = ApplicationStartupEvent
    /\ Len(StartupRuns) = 4
    /\ \E c, l, f \in AllSubscribers(pre.subscribers) :
          /\ c.callback = "init_config_onstartup"
          /\ l.callback = "init_logger_onstartup"
          /\ f.callback = "f"
          /\ f.seq < c.seq /\ c.seq < l.seq
    /\ Caught # <<>>

\* the call of as_dataclass thread 1 is back from
Made == last[1].op = "as_dataclass" /\ outcome[1] # "none"

\* the items of a mapping whose key equals the name under case-insensitive
\* comparison
KeysFor(name, m) == {i \in 1..Len(m.items) : Lower(m.items[i].k) = Lower(name)}

\* an input the dataclass can be filled from: at most one key per field under
\* case-insensitive comparison, and under it null or a value of the field's
\* kind, an integer also as the string of its digits
RECURSIVE Fits(_, _)
Fits(type, v) ==
    CASE type.k = "int" -> v.t = "num" \/ (v.t = "str" /\ StrToInt(v.sv).ok)
      [] type.k = "str" -> v.t = "str"
      [] type.k = "float" -> FALSE
      [] type.k = "Union" -> Fits(type.arg, v)
      [] type.k = "Dict" ->
           v.t = "mapping" /\ \A i \in 1..Len(v.items) : Fits(type.arg, v.items[i].v)
      [] type.k = "List" ->
           v.t = "list" /\ \A i \in 1..Len(v.lv) : Fits(type.arg, v.lv[i])
      [] type.k = "dataclass" ->
           /\ v.t = "mapping"
           /\ \A i \in 1..Len(fields(type.name)) :
                LET f == fields(type.name)[i]
                IN  /\ Cardinality(KeysFor(f.name, v)) <= 1
                    /\ \A j \in KeysFor(f.name, v) :
                          IsNone(v.items[j].v) \/ Fits(f.type, v.items[j].v)

\* the result holds what the input gives: an instance whose fields have the
\* values under the keys that equal their names case-insensitively, a string
\* for an int field as that integer, at every nesting level
RECURSIVE Filled(_, _, _)
Filled(got, type, v) ==
    CASE type.k = "int" ->
           got = (IF v.t = "str" THEN StrToInt(v.sv).val ELSE v)
      [] type.k \in {"str", "float"} -> got = v
      [] type.k = "Union" -> Filled(got, type.arg, v)
      [] type.k = "Dict" ->
           /\ got.t = "mapping" /\ Len(got.items) = Len(v.items)
           /\ \A i \in 1..Len(v.items) :
                /\ got.items[i].k = v.items[i].k
                /\ Filled(got.items[i].v, type.arg, v.items[i].v)
      [] type.k = "List" ->
           /\ got.t = "list" /\ Len(got.lv) = Len(v.lv)
           /\ \A i \in 1..Len(v.lv) : Filled(got.lv[i], type.arg, v.lv[i])
      [] type.k = "dataclass" ->
           /\ got.t = "inst" /\ got.cls = type.name
           /\ DOMAIN got.kw = FieldNames(type.name)
           /\ \A i \in 1..Len(fields(type.name)) :
                LET f == fields(type.name)[i]
                IN  \A j \in KeysFor(f.name, v) :
                        ~IsNone(v.items[j].v) =>
                            Filled(got.kw[f.name], f.type, v.items[j].v)

\* C28: with ignore_case on, as_dataclass of a dataclass and a mapping it can
\* be filled from returns an instance in which every field has the value under
\* the key that equals its name case-insensitively, at every nesting level
\* (nested dataclasses, dataclass values inside a Dict), a string given for an
\* int field converted to that integer
C28_FilledIgnoringCase ==
    (Made /\ last[1].ignore_case /\ last[1].cls.k = "dataclass"
          /\ Fits(last[1].cls, last[1].data)) =>
        /\ last[1].res.ok
        /\ Filled(last[1].res.val, last[1].cls, last[1].data)

\* C29: as_dataclass of List[D], D a dataclass, and a list of mappings D can
\* be filled from (ignore_case left at its default, on) returns a list of the
\* same length whose element at every index is the instance of D built from
\* the mapping at that index
C29_TopLevelListElementwise ==
    (Made /\ last[1].cls.k = "List" /\ last[1].cls.arg.k = "dataclass"
          /\ last[1].ignore_case /\ last[1].data.t = "list"
          /\ \A i \in 1..Len(last[1].data.lv) :
                last[1].data.lv[i].t = "mapping"
                    /\ Fits(last[1].cls.arg, last[1].data.lv[i])) =>
        /\ last[1].res.ok
        /\ last[1].res.val.t = "list"
        /\ Len(last[1].res.val.lv) = Len(last[1].data.lv)
        /\ \A i \in 1..Len(last[1].data.lv) :
              Filled(last[1].res.val.lv[i], last[1].cls.arg, last[1].data.lv[i])

\* the sweeps in progress on the stack of a thread
SweepFrames(t) == {i \in 1..Len(stack[t]) : stack[t][i].fn = "on_register_resolver"}

\* C30: during and after a register call, no sweep runs inside another one,
\* and what is resolved was cached when the call began, each entry at most as
\* often as it was cached: entries appended meanwhile wait for the next
\* registration
C30_AppendedEntriesWait ==
    last[1].op = "register" =>
        /\ Cardinality(SweepFrames(1)) <= 1
        /\ \A i \in 1..Len(log) :
              log[i].k = "resolve" =>
                  /\ Occurrences(pre.cache, log[i].imp) > 0
                  /\ Resolves(log[i].imp) <= Occurrences(pre.cache, log[i].imp)

\* C39 as stated: with raise_error=True getprop never returns the caller's
\* default: it returns a stored non-null value or raises KeyError, so a path
\* that resolves to a stored null raises like a missing path
C39_StrictNeverDefault ==
    (Got /\ last[1].raise_error) =>
        \/ last[1].res = KeyError
        \/ \E v \in Resolved : ~IsNone(v) /\ last[1].res = Ret(v)

\* C39 as the code has it: with raise_error=True getprop raises KeyError for a
\* path that leads nowhere, returns the stored value when it is not null, and
\* returns the caller's default only for a path that resolves to a stored null
C39_StrictDefaultOnlyForNull ==
    (Got /\ last[1].raise_error) =>
        /\ Resolved = {} => last[1].res = KeyError
        /\ \A v \in Resolved :
              last[1].res = Ret(IF IsNone(v) THEN last[1].default ELSE v)

\* a.x is stored as null and is read with raise_error=True and the default 0
C39_Witness ==
    /\ Got /\ last[1].raise_error
    /\ last[1].key = <<"a", DOT, "x">> /\ last[1].delimiter = DOT
    /\ last[1].data = Dict(One(K("a"), Dict(One(K("x"), None))))
    /\ last[1].default = Num(0) /\ last[1].res = Ret(Num(0))

\* C38: a merge with the 'ignore' or the 'delete' policy never introduces a
\* null: a tree that holds no null at any depth before the merge holds none
\* after it, whatever the override mapping
C38_NoNullIntroduced ==
    (Merged /\ ModeUsed \in {"ignore", "delete"} /\ NullPaths(Dict(pre.env)) = {}) =>
        NullPaths(Dict(env)) = {}

\* the environment held a non-empty config.imports list when the call began
HeldImports ==
    /\ K("config") \in DOMAIN pre.env
    /\ Truthy(ExtractImports(Dict(pre.env)))

\* C32: merge_source harvests imports only from the mapping it has just
\* loaded: while and after a resource without config.imports is merged, the
\* cache is what it was when the call began and add_imports is not called,
\* also when the environment already holds a config.imports list
C32_ImportsFromLoadedOnly ==
    (last[1].op = "merge_source" /\ ~Truthy(ExtractImports(AsMapping(Load(last[1].res))))) =>
        /\ cached_imports = pre.cache
        /\ \A i \in 1..Len(stack[1]) : stack[1][i].fn # "add_imports"

\* 'more' (c = 3, no imports) was merged into an environment that held the
\* config.imports of an earlier merge, with an entry waiting in the cache
C32_Witness ==
    /\ Back /\ last[1].op = "merge_source" /\ last[1].res = "more"
    /\ outcome[1] = "returned"
    /\ HeldImports /\ pre.cache # <<>>
    /\ EnvNum("c", 3) /\ cached_imports = pre.cache

\* a listener of default priority is about to run in the dispatch that
\* register itself started
AtListener ==
    /\ last[1].op = "register" /\ Len(stack[1]) = 3
    /\ At(1, "callback", "run") /\ Top(1).cb \in NotifyProfiles
\* the entries cached when register was called that name its protocol
Awaited ==
    {i \in 1..Len(pre.cache) :
        Contains(pre.cache[i], COLON) /\ SplitOnce(pre.cache[i], COLON)[1] = last[1].proto}
\* the values the environment holds from a resource, its imports aside
Holds(res) ==
    LET data == AsMapping(Load(res)).dv
    IN  \A k \in (DOMAIN data) \ {K("config")} : k \in DOMAIN env /\ env[k] = data[k]

\* C31: register adds the protocol to the registry before it notifies, and in
\* the notification the sweep (priority 10) runs before every subscriber of
\* default priority 0, registered before or after the sweep: when such a
\* subscriber runs, the protocol is registered, the sweep was the first
\* subscriber invoked and is over, and the environment holds the data of the
\* cached entries of that protocol
C31_SweepBeforeListeners ==
    AtListener =>
        /\ IsRegistered(resolvers, last[1].proto)
        /\ Invoked # <<>> /\ Invoked[1].sub.callback = "on_register_resolver"
        /\ \A i \in Awaited :
              Holds(Resolve(last[1].proto, Strip(SplitOnce(pre.cache[i], COLON)[2])))

\* the listener f was registered before the sweep, '//host/more.yml' was
\* cached, and f runs after register('http') with c = 3 in the environment
C31_Witness ==
    /\ AtListener /\ Top(1).cb = "f" /\ last[1].proto = P_http
    /\ pre.cache = <<I_x2, I_more>>
    /\ \E s \in AllSubscribers(subscribers) : s.callback = "f" /\ s.seq < SweepSubscriber.seq
    /\ EnvNum("c", 3)

\* the subscribers that were registered when the emit began and match its event
Addressed == {s \in AllSubscribers(pre.subscribers) : IsSubclass(last[1].ev, s.event_type)}
Refused(s) == s.condition # "none" /\ ~ConditionHolds(s.condition, last[1].ev)
InvokedSubs == {Invoked[i].sub : i \in 1..Len(Invoked)}

\* C33: a subscriber whose predicate is false for the event is not invoked for
\* it and, once or not, is still registered when the emit is over; a once
\* subscriber whose predicate is true for the event is invoked by this emit
C33_RefusedKeptForLater ==
    (Back /\ last[1].op = "emit") =>
        \A s \in Addressed :
            /\ Refused(s) => s \notin InvokedSubs /\ s \in AllSubscribers(subscribers)
            /\ (s.once /\ s.condition = "is_child" /\ ~Refused(s)) => s \in InvokedSubs

\* the subscribers of the emitted event whose predicate raises for it
Throwing == {s \in Addressed : s.condition # "none" /\ ConditionRaises(s.condition)}

\* C36: when a predicate raises during an emit, the emit still returns, every
\* other subscriber of the event whose predicate does not refuse it has been
\* invoked, and no once subscriber that was invoked is still registered
C36_PredicateErrorContained ==
    (Back /\ last[1].op = "emit" /\ Throwing # {}) =>
        /\ outcome[1] = "returned"
        /\ \A s \in Addressed \ Throwing : ~Refused(s) => s \in InvokedSubs
        /\ \A s \in InvokedSubs : s.once => s \notin AllSubscribers(subscribers)

\* the subscribers the dispatch invoked, in the order of their invocation
InvokedInOrder == [i \in 1..Len(Invoked) |-> Invoked[i].sub]

\* C37: the callbacks an emit has invoked when it returns are those of the
\* subscribers registered when it began, in their order: none that a callback
\* added meanwhile, and all of those a callback unsubscribed or cleared
C37_DispatchesToSnapshot ==
    (Back /\ last[1].op = "emit") =>
        InvokedInOrder = SortByPriority(Applicable(pre.subscribers, last[1].ev))

\* an emit in which drop unsubscribed f before f was invoked, and after which a
\* subscriber added by adder is registered without having been invoked
C37_Witness ==
    /\ Back /\ last[1].op = "emit"
    /\ \E i, j \in 1..Len(Invoked) :
           i < j /\ Invoked[i].sub.callback = "drop" /\ Invoked[j].sub.callback = "f"
    /\ \E s \in Late(subscribers) : s \notin AllSubscribers(pre.subscribers)
    /\ \A i \in 1..Len(Invoked) : Invoked[i].sub.callback # "late"

\* C34: when a call returns, no entry the call merged is still in the cache,
\* and the call resolved no entry more often than the cache held it
C34_MergedAtMostOnce ==
    (Back /\ last[1].op = "register") =>
        /\ \A i \in 1..Len(cached_imports) : \A j, k \in 1..Len(log) :
               ~(/\ j < k
                 /\ log[j].k = "resolve" /\ log[j].imp = cached_imports[i]
                 /\ log[k].k = "merge" /\ log[k].res = log[j].res)
        /\ \A imp \in {I_more, I_bad, I_x2} :
               Resolves(imp) <= Occurrences(pre.cache, imp)

\* the place in the log of the first merge of the mapping of a resource
MergedAt(res) ==
    LET at == {i \in 1..Len(log) : log[i].k = "merge" /\ log[i].res = res}
    IN  IF at = {} THEN 0 ELSE CHOOSE i \in at : \A j \in at : i <= j

\* C35: merge_source of a resource that sets c=1 and imports a resource that
\* sets c=3 ends with c=1 when the protocol of the import is registered, the
\* imported mapping merged before the importing one; when the protocol is
\* registered afterwards, that register ends with c=3
C35_ImporterWinsUnlessLate ==
    \A m \in Importers :
        /\ (Back /\ last[1].op = "merge_source" /\ last[1].res = m.res
               /\ IsRegistered(pre.resolvers, m.proto)) =>
              /\ outcome[1] = "returned"
              /\ 0 < MergedAt(m.of) /\ MergedAt(m.of) < MergedAt(m.res)
              /\ EnvNum(m.key, 1)
        /\ (Back /\ last[1].op = "merge_source" /\ last[1].res = m.res
               /\ ~IsRegistered(pre.resolvers, m.proto)) =>
              /\ outcome[1] = "returned"
              /\ MergedAt(m.of) = 0
              /\ EnvNum(m.key, 1)
              /\ Occurrences(cached_imports, m.imp) = Occurrences(pre.cache, m.imp) + 1
        /\ (Back /\ last[1].op = "register" /\ last[1].proto = m.proto
               /\ Occurrences(pre.cache, m.imp) > 0) =>
              /\ outcome[1] = "returned"
              /\ EnvNum(m.key, m.theirs)

\* register('http') has returned with c=3 after a merge_source that left c=1
\* and the import in the cache
C35_Witness ==
    /\ Back /\ last[1].op = "register" /\ last[1].proto = P_http
    /\ Occurrences(pre.cache, I_more) > 0
    /\ PreNum("c", 1) /\ EnvNum("c", 3)

\* Proxy(...) of thread t has returned
Constructs(t) == last[t].op = "new" /\ outcome[t] = "returned"

\* C40: no proxy ever constructs a second object, so every construction,
\* racing or not, returns the first one; and while calls are in progress
\* (constructions, emits, subscribes, merges) one of them can take a step
C40_OneInstanceNoDeadlock ==
    /\ \A cls \in Proxies : instance[cls] <= 1
    /\ \A t \in Threads : Constructs(t) => last[t].obj = 1
    /\ (\E t \in Threads : stack[t] # <<>>) =>
           \E u \in Threads : stack[u] # <<>> /\ ENABLED StepSingle(u)

\* two first constructions of one proxy that raced: both threads found no
\* instance, both ran the with statement, and both returned the same object
C40_Witness ==
    /\ \A t \in Threads : Constructs(t) /\ last[t].entered
    /\ last[1].cls = last[2].cls
    /\ last[1].obj = last[2].obj
====
